---- MODULE Spec2Model ----
(***************************************************************************)
(* The i18n core of text-intl (src/unnamed/part_002): the module state     *)
(* locale / fallbackLocale / messages / meta and the operations init, t,   *)
(* getLocale and setLocale.                                                *)
(* On top of it the React provider (src/src/react.jsx and its copy in      *)
(* src/test-app/App.tsx): its locale state, its effect that calls init,    *)
(* and its t, which passes the core's string through the tag handlers.     *)
(* Beside it the watch mode of the command line (src/cli/extract.js,       *)
(* watchFiles): a debounce timer and an in-progress flag around the        *)
(* extraction; and the extraction itself (extractMessages): the source     *)
(* texts found in the code, and the meta and messages files of every       *)
(* locale and namespace.                                                   *)
(*                                                                         *)
(* JavaScript values are records tagged with their type, the payload in a  *)
(* field of its own per type (s, n, o).  A JavaScript string is a sequence *)
(* of tokens (a token is a maximal lexical unit: a word, a brace, a comma, *)
(* a blank, ...), so the empty string is << >> and a locale tag such as    *)
(* 'en' is <<"en">>.  An object is a function from property names to       *)
(* values.                                                                 *)
(***************************************************************************)
EXTENDS Integers, Sequences, FiniteSets, TLC

VARIABLES
  locale,          \* let locale = 'ko'
  fallbackLocale,  \* let fallbackLocale = null
  messages,        \* let messages = {}
  meta,            \* let meta = {}
  call,            \* the last call made on the module and its arguments
  outcome,         \* what that call did: returned a value or threw
  prior,           \* the locale, and whether meta and a fallback were set, before that call
  ready,           \* some init() has succeeded
  provider,        \* the I18nProvider, once rendered: its props and its locale state
  watcher,         \* watchFiles: its timer, its isProcessing flag, the runs and events so far
  project          \* the project on disk: the texts in its code, its resource files, and sha256

engine == <<locale, fallbackLocale, messages, meta>>
cli == <<watcher, project>>
vars == <<locale, fallbackLocale, messages, meta, call, outcome, prior, ready, provider,
          watcher, project>>

----------------------------------------------------------------------------
(* JavaScript values *)

JUndefined == [ty |-> "undefined"]
JNull == [ty |-> "null"]
JStr(s) == [ty |-> "string", s |-> s]
JNum(n) == [ty |-> "number", n |-> n]
JObj(o) == [ty |-> "object", o |-> o]
\* a built-in function, by its name
JFun(name) == [ty |-> "function", name |-> name]

EmptyObject == JObj(<< >>)

\* typeof x
Typeof(x) == IF x.ty = "null" THEN "object" ELSE x.ty

CONSTRUCTOR == <<"constructor">>

\* Property names every object literal inherits from Object.prototype, and
\* the members they name: ({})['constructor'] is the function Object.
ObjectPrototype == {CONSTRUCTOR, <<"valueOf">>}
Inherited(k) == JFun(IF k = CONSTRUCTOR THEN <<"Object">> ELSE k)

\* the truthiness of x, as !x / if (x) / x || y use it
Truthy(x) ==
  CASE x.ty = "undefined" -> FALSE
    [] x.ty = "null" -> FALSE
    [] x.ty = "string" -> x.s # << >>
    [] x.ty = "number" -> x.n # 0
    [] OTHER -> TRUE

\* o.k for a property name k written in the code (locale, messages, meta,
\* fallbackLocale), none of which Object.prototype defines
Get(x, k) == IF x.ty = "object" /\ k \in DOMAIN x.o THEN x.o[k] ELSE JUndefined

\* o[k] for a computed string k, on a value that is not null or undefined:
\* an own property, else a member inherited from the prototype; a function
\* has its name and what Function.prototype defines
Index(x, k) ==
  CASE x.ty = "object" ->
         IF k \in DOMAIN x.o THEN x.o[k]
         ELSE IF k \in ObjectPrototype THEN Inherited(k)
         ELSE JUndefined
    [] x.ty = "function" ->
         IF k = <<"name">> THEN JStr(x.name)
         ELSE IF k = CONSTRUCTOR THEN JFun(<<"Function">>)
         ELSE IF k \in ObjectPrototype THEN Inherited(k)
         ELSE JUndefined
    [] OTHER -> JUndefined

\* o?.[k]
OptIndex(x, k) == IF x.ty \in {"undefined", "null"} THEN JUndefined ELSE Index(x, k)

\* store[loc]?.[namespace]?.[key], with loc, namespace and key strings
Lookup(store, loc, namespace, key) ==
  OptIndex(OptIndex(Index(store, loc), namespace), key)

\* a || b
Or(a, b) == IF Truthy(a) THEN a ELSE b

Returned(x) == [threw |-> FALSE, value |-> x]
Threw(cls, msg) == [threw |-> TRUE, error |-> cls, message |-> msg]

DEFAULT_NAMESPACE == <<"common">>

----------------------------------------------------------------------------
(* init *)

\* the I18nConfigError init throws for config, or "" when it throws none
initError(config) ==
  IF ~Truthy(config) \/ Typeof(config) # "object"
    THEN "init() requires a config object"
  ELSE IF Typeof(Get(config, "locale")) # "string" \/ ~Truthy(Get(config, "locale"))
    THEN "config.locale must be a non-empty string"
  ELSE IF ~Truthy(Get(config, "messages")) \/ Typeof(Get(config, "messages")) # "object"
    THEN "config.messages must be an object"
  ELSE IF ~Truthy(Index(Get(config, "messages"), Get(config, "locale").s))
    THEN "config.messages[locale] is missing"
  ELSE ""

\* init as it would be if an omitted meta or fallbackLocale kept the old one
initEffect_KeepsMeta(config) ==
  IF initError(config) # ""
    THEN [locale |-> locale, messages |-> messages, meta |-> meta,
          fallbackLocale |-> fallbackLocale,
          outcome |-> Threw("I18nConfigError", initError(config))]
    ELSE [locale |-> Get(config, "locale"),
          messages |-> Get(config, "messages"),
          meta |-> Or(Get(config, "meta"), meta),
          fallbackLocale |-> Or(Get(config, "fallbackLocale"), fallbackLocale),
          outcome |-> Returned(JUndefined)]

\* the module state init(config) leaves, and what the call did
initEffect(config) ==
  IF initError(config) # ""
    THEN [locale |-> locale, messages |-> messages, meta |-> meta,
          fallbackLocale |-> fallbackLocale,
          outcome |-> Threw("I18nConfigError", initError(config))]
    ELSE [locale |-> Get(config, "locale"),
          messages |-> Get(config, "messages"),
          meta |-> Or(Get(config, "meta"), EmptyObject),
          fallbackLocale |-> Or(Get(config, "fallbackLocale"), JNull),
          outcome |-> Returned(JUndefined)]

----------------------------------------------------------------------------
(* getLocale, setLocale *)

getLocale == locale

\* the I18nConfigError setLocale throws for newLocale, or "" when it throws none
setLocaleError(newLocale) ==
  IF Typeof(newLocale) # "string" \/ ~Truthy(newLocale)
    THEN "setLocale() requires a non-empty string"
  ELSE IF ~Truthy(Index(messages, newLocale.s))
    THEN "Locale is not available in messages"
  ELSE ""

setLocaleEffect(newLocale) ==
  IF setLocaleError(newLocale) # ""
    THEN [locale |-> locale,
          outcome |-> Threw("I18nConfigError", setLocaleError(newLocale))]
    ELSE [locale |-> newLocale, outcome |-> Returned(JUndefined)]

----------------------------------------------------------------------------
(* Strings: sequences of tokens *)

\* The largest number a template or a value spells out.
MaxNum == 5

PunctTokens == {"{", "}", ",", " ", "#", "'", "<", ">", "/", ":", "=", "!", ".", "-"}

\* tok is a run of \w characters
IsWord(tok) == tok \notin PunctTokens

\* tok is a run of digits
IsNumTok(tok) == \E n \in 0..MaxNum : ToString(n) = tok

NumVal(tok) == CHOOSE n \in 0..MaxNum : ToString(n) = tok

\* String(n) for an integer n
NumStr(n) == IF n < 0 THEN <<"-", ToString(0 - n)>> ELSE <<ToString(n)>>

\* s.indexOf(pat) + 1, and 0 when pat does not occur in s
IndexOf(s, pat) ==
  LET hits == {i \in 1..(Len(s) - Len(pat) + 1) : SubSeq(s, i, i + Len(pat) - 1) = pat}
  IN IF hits = {} THEN 0 ELSE CHOOSE i \in hits : \A j \in hits : i <= j

\* s.replace(pat, rep) with a string pattern: the first occurrence only
ReplaceFirst(s, pat, rep) ==
  LET i == IndexOf(s, pat)
  IN IF i = 0 THEN s
     ELSE SubSeq(s, 1, i - 1) \o rep \o SubSeq(s, i + Len(pat), Len(s))

\* the first position at or after i that holds no blank
RECURSIVE SkipWs(_, _)
SkipWs(s, i) == IF i <= Len(s) /\ s[i] = " " THEN SkipWs(s, i + 1) ELSE i

\* the first position at or after i that holds no word token
RECURSIVE SkipWord(_, _)
SkipWord(s, i) == IF i <= Len(s) /\ IsWord(s[i]) THEN SkipWord(s, i + 1) ELSE i

ICUTypes == {"plural", "select", "selectordinal", "number", "date", "time"}

\* The words of the model's templates that begin with one of the ICUTypes
\* without being one: the regular expression ends with the keyword and asks
\* for no word boundary after it.
ICUTypePrefixed == {"numbers"}

\* (plural|select|selectordinal|number|date|time) matches at the start of tok
BeginsWithICUType(tok) == tok \in ICUTypes \cup ICUTypePrefixed

\* /\{\s*\w+\s*,\s*(plural|select|selectordinal|number|date|time)/ matches at i
ICUPatternAt(s, i) ==
  /\ s[i] = "{"
  /\ LET a == SkipWs(s, i + 1)
         b == SkipWord(s, a)
         c == SkipWs(s, b)
         d == SkipWs(s, c + 1)
     IN /\ b > a
        /\ c <= Len(s) /\ s[c] = ","
        /\ d <= Len(s) /\ BeginsWithICUType(s[d])

\* isICUMessage as it would be if any placeholder made a template ICU
isICUMessage_AnyPlaceholder(text) ==
  IF Typeof(text) # "string" THEN FALSE
  ELSE \E i \in 1..Len(text.s) :
         text.s[i] = "{" /\ SkipWord(text.s, SkipWs(text.s, i + 1)) > SkipWs(text.s, i + 1)

isICUMessage(text) ==
  IF Typeof(text) # "string" THEN FALSE
  ELSE \E i \in 1..Len(text.s) : ICUPatternAt(text.s, i)

----------------------------------------------------------------------------
(* new IntlMessageFormat(message, locale).format(values): the ICU          *)
(* MessageFormat evaluator the core imports from intl-messageformat.       *)
(* Parsing builds a list of elements; formatting walks it.                 *)

ParseFail == [ok |-> FALSE]

Lit(text) == [k |-> "lit", s |-> text]

\* the text of an apostrophe-quoted run that began before i, up to its closing
\* apostrophe (a doubled apostrophe inside it stands for one apostrophe)
RECURSIVE ParseQuoted(_, _)
ParseQuoted(s, i) ==
  IF i > Len(s) THEN [pos |-> i, text |-> << >>]
  ELSE IF s[i] = "'"
    THEN IF i + 1 <= Len(s) /\ s[i + 1] = "'"
           THEN LET r == ParseQuoted(s, i + 2)
                IN [pos |-> r.pos, text |-> <<"'">> \o r.text]
           ELSE [pos |-> i + 1, text |-> << >>]
  ELSE LET r == ParseQuoted(s, i + 1)
       IN [pos |-> r.pos, text |-> <<s[i]>> \o r.text]

RECURSIVE ParseMessage(_, _, _, _, _)
RECURSIVE ParseTag(_, _, _, _)
RECURSIVE ParseArgument(_, _, _, _)
RECURSIVE ParseOptions(_, _, _, _, _)
RECURSIVE ParseArms(_, _, _, _, _, _)

\* the elements from position i up to the end of s or, inside an argument
\* (nesting > 0), up to the closing brace of the enclosing arm or, inside a
\* tag (inTag), up to its closing tag
ParseMessage(s, i, nesting, parent, inTag) ==
  IF i > Len(s) THEN [ok |-> TRUE, pos |-> i, els |-> << >>]
  ELSE IF s[i] = "}" /\ nesting > 0 THEN [ok |-> TRUE, pos |-> i, els |-> << >>]
  ELSE IF s[i] = "<" /\ i + 1 <= Len(s) /\ s[i + 1] = "/"
    THEN IF inTag THEN [ok |-> TRUE, pos |-> i, els |-> << >>] ELSE ParseFail
  ELSE
    LET next == IF i + 1 <= Len(s) THEN s[i + 1] ELSE ""
        first ==
          IF s[i] = "{" THEN ParseArgument(s, i + 1, nesting, inTag)
          ELSE IF s[i] = "#" /\ parent \in {"plural", "selectordinal"}
            THEN [ok |-> TRUE, pos |-> i + 1, el |-> [k |-> "pound"]]
          ELSE IF s[i] = "<" /\ next # "" /\ IsWord(next) /\ ~IsNumTok(next)
            THEN ParseTag(s, i + 1, nesting, parent)
          ELSE IF s[i] = "'" /\ next = "'"
            THEN [ok |-> TRUE, pos |-> i + 2, el |-> Lit(<<"'">>)]
          ELSE IF s[i] = "'" /\
                  (next \in {"{", "}", "<", ">"} \/
                   (next = "#" /\ parent \in {"plural", "selectordinal"}))
            THEN LET q == ParseQuoted(s, i + 2)
                 IN [ok |-> TRUE, pos |-> q.pos, el |-> Lit(<<next>> \o q.text)]
          ELSE [ok |-> TRUE, pos |-> i + 1, el |-> Lit(<<s[i]>>)]
    IN IF ~first.ok THEN ParseFail
       ELSE LET rest == ParseMessage(s, first.pos, nesting, parent, inTag)
            IN IF ~rest.ok THEN ParseFail
               ELSE [ok |-> TRUE, pos |-> rest.pos, els |-> <<first.el>> \o rest.els]

\* the tag whose name is at position i: <name/> is literal text, <name> opens
\* an element that must be closed by </name>
ParseTag(s, i, nesting, parent) ==
  LET name == s[i]
      j == SkipWs(s, i + 1)
  IN
  IF j + 1 <= Len(s) /\ s[j] = "/" /\ s[j + 1] = ">"
    THEN [ok |-> TRUE, pos |-> j + 2, el |-> Lit(<<"<", name, "/", ">">>)]
  ELSE IF j > Len(s) \/ s[j] # ">" THEN ParseFail
  ELSE
    LET children == ParseMessage(s, j + 1, nesting + 1, parent, TRUE) IN
    IF ~children.ok THEN ParseFail
    ELSE
      LET p == children.pos
          q == SkipWs(s, p + 3)
      IN IF /\ p + 2 <= Len(s) /\ s[p] = "<" /\ s[p + 1] = "/" /\ s[p + 2] = name
            /\ q <= Len(s) /\ s[q] = ">"
           THEN [ok |-> TRUE, pos |-> q + 1,
                 el |-> [k |-> "tag", name |-> <<name>>, els |-> children.els]]
           ELSE ParseFail

\* the argument whose opening brace is just before i
ParseArgument(s, i, nesting, inTag) ==
  LET a == SkipWs(s, i) IN
  IF a > Len(s) \/ ~IsWord(s[a]) THEN ParseFail
  ELSE
    LET b == SkipWs(s, a + 1) IN
    IF b > Len(s) THEN ParseFail
    ELSE IF s[b] = "}"
      THEN [ok |-> TRUE, pos |-> b + 1, el |-> [k |-> "arg", name |-> <<s[a]>>]]
    ELSE IF s[b] = "," THEN ParseOptions(s, SkipWs(s, b + 1), <<s[a]>>, nesting, inTag)
    ELSE ParseFail

\* the arms `selector {message}` from position i on
ParseArms(s, i, ty, nesting, seen, inTag) ==
  LET exact == ty # "select" /\ i <= Len(s) /\ s[i] = "="
      ident == i <= Len(s) /\ IsWord(s[i])
  IN
  IF ~exact /\ ~ident THEN [ok |-> TRUE, pos |-> i, arms |-> << >>]
  ELSE IF exact /\ (i + 1 > Len(s) \/ ~IsNumTok(s[i + 1])) THEN ParseFail
  ELSE
    LET sel == IF exact THEN <<"=", s[i + 1]>> ELSE <<s[i]>>
        j == SkipWs(s, IF exact THEN i + 2 ELSE i + 1)
    IN
    IF sel \in seen THEN ParseFail
    ELSE IF j > Len(s) \/ s[j] # "{" THEN ParseFail
    ELSE
      LET frag == ParseMessage(s, j + 1, nesting + 1, ty, inTag) IN
      IF ~frag.ok THEN ParseFail
      ELSE IF frag.pos > Len(s) \/ s[frag.pos] # "}" THEN ParseFail
      ELSE
        LET rest == ParseArms(s, SkipWs(s, frag.pos + 1), ty, nesting, seen \cup {sel}, inTag)
        IN IF ~rest.ok THEN ParseFail
           ELSE [ok |-> TRUE, pos |-> rest.pos,
                 arms |-> <<[sel |-> sel, els |-> frag.els]>> \o rest.arms]

\* the rest of an argument `{name, type ...}` from its type at position p on
ParseOptions(s, p, name, nesting, inTag) ==
  IF p > Len(s) \/ ~IsWord(s[p]) THEN ParseFail
  ELSE
    LET ty == s[p]
        q == SkipWs(s, p + 1)
    IN
    IF ty \in {"number", "date", "time"}
      THEN IF q <= Len(s) /\ s[q] = "}"
             THEN [ok |-> TRUE, pos |-> q + 1, el |-> [k |-> ty, name |-> name]]
             ELSE ParseFail
    ELSE IF ty \in {"plural", "selectordinal", "select"}
      THEN
        IF q > Len(s) \/ s[q] # "," THEN ParseFail
        ELSE
          LET r == SkipWs(s, q + 1)
              hasOffset == ty # "select" /\ r <= Len(s) /\ s[r] = "offset"
              n == SkipWs(s, r + 2)
              badOffset == hasOffset /\
                 (r + 1 > Len(s) \/ s[r + 1] # ":" \/ n > Len(s) \/ ~IsNumTok(s[n]))
          IN
          IF badOffset THEN ParseFail
          ELSE
            LET arms == ParseArms(s, IF hasOffset THEN SkipWs(s, n + 1) ELSE r,
                                  ty, nesting, {}, inTag)
            IN
            IF ~arms.ok THEN ParseFail
            ELSE IF arms.arms = << >> THEN ParseFail
            ELSE IF ~\E a \in 1..Len(arms.arms) : arms.arms[a].sel = <<"other">>
              THEN ParseFail
            ELSE IF arms.pos > Len(s) \/ s[arms.pos] # "}" THEN ParseFail
            ELSE [ok |-> TRUE, pos |-> arms.pos + 1,
                  el |-> [k |-> ty, name |-> name,
                          offset |-> IF hasOffset THEN NumVal(s[n]) ELSE 0,
                          arms |-> arms.arms]]
    ELSE ParseFail

\* Intl.PluralRules as it would be if every number were `other`
PluralCategory_AlwaysOther(loc, n) == <<"other">>

\* Intl.PluralRules(loc).select(n) for an integer n: English has `one` for 1,
\* French has `one` for 0 and 1, Russian has `one`, `few` and `many` by the
\* last digits, Korean has `other` alone
PluralCategory(loc, n) ==
  LET magnitude == IF n < 0 THEN 0 - n ELSE n
      units == magnitude % 10
      tens == magnitude % 100
  IN IF loc = <<"en">> THEN (IF magnitude = 1 THEN <<"one">> ELSE <<"other">>)
     ELSE IF loc = <<"fr">> THEN (IF magnitude \in {0, 1} THEN <<"one">> ELSE <<"other">>)
     ELSE IF loc = <<"ru">>
       THEN (IF units = 1 /\ tens # 11 THEN <<"one">>
             ELSE IF units \in 2..4 /\ tens \notin 12..14 THEN <<"few">>
             ELSE <<"many">>)
     ELSE <<"other">>

\* Intl.PluralRules(loc, {type: 'ordinal'}).select(n) for 0 <= n <= 10
OrdinalCategory(loc, n) ==
  IF loc # <<"en">> THEN <<"other">>
  ELSE IF n = 1 THEN <<"one">>
  ELSE IF n = 2 THEN <<"two">>
  ELSE IF n = 3 THEN <<"few">>
  ELSE <<"other">>

\* String(value) for a string or a number
StringOf(value) == IF value.ty = "number" THEN NumStr(value.n) ELSE value.s

\* the arm of arms whose selector is sel, as a set of at most one arm
ArmsFor(arms, sel) == {arms[a].els : a \in {b \in 1..Len(arms) : arms[b].sel = sel}}

FormatFail == [ok |-> FALSE]

\* the number a plural is selected by, and `#` prints, as it would be if the
\* offset were not subtracted
PluralOperand_IgnoresOffset(value, offset) == value

\* value - offset: the number a plural's category is selected by and `#` prints
PluralOperand(value, offset) == value - offset

\* String(x) of a part that is no string: what Array.prototype.join makes of
\* the node a tag function returned
OBJECT_TEXT == "[object Object]"

\* String(f) of a function: its source text, abbreviated to its name
FunctionText(f) == <<"function">> \o f.name

Literal(text) == [ok |-> TRUE, out |-> text, parts |-> 1, objs |-> 0]

\* the parts the elements els format to: their text, their number, and the
\* number of those that are objects (what the function of a tag returned, or
\* a function given for a plain argument); cur is the number `#` stands for
RECURSIVE FormatEls(_, _, _, _)
FormatEls(els, values, loc, cur) ==
  IF els = << >> THEN [ok |-> TRUE, out |-> << >>, parts |-> 0, objs |-> 0]
  ELSE
    LET el == Head(els)
        value == values.o[el.name]
        exactArm == ArmsFor(el.arms, <<"=">> \o StringOf(value))
        shifted == PluralOperand(value.n, el.offset)
        ruleArm == ArmsFor(el.arms, IF el.k = "plural"
                                      THEN PluralCategory(loc, shifted)
                                      ELSE OrdinalCategory(loc, shifted))
        otherArm == ArmsFor(el.arms, <<"other">>)
        first ==
          IF el.k = "lit" THEN Literal(el.s)
          ELSE IF el.k = "pound" THEN Literal(NumStr(cur))
          ELSE IF ~(Truthy(values) /\ el.name \in DOMAIN values.o) THEN FormatFail
          ELSE IF el.k = "tag"
            THEN IF Typeof(value) # "function" \/ ~FormatEls(el.els, values, loc, cur).ok
                   THEN FormatFail
                   ELSE [ok |-> TRUE, out |-> <<OBJECT_TEXT>>, parts |-> 1, objs |-> 1]
          ELSE IF el.k = "arg" /\ Typeof(value) = "function"
            THEN [ok |-> TRUE, out |-> FunctionText(value), parts |-> 1, objs |-> 1]
          ELSE IF Typeof(value) \notin {"string", "number"} THEN FormatFail
          ELSE IF el.k \in {"arg", "number"} THEN Literal(StringOf(value))
          ELSE IF el.k \in {"date", "time"} THEN Literal(<<el.k>>)
          ELSE IF el.k = "select"
            THEN FormatEls(CHOOSE a \in (IF ArmsFor(el.arms, StringOf(value)) # {}
                                           THEN ArmsFor(el.arms, StringOf(value))
                                           ELSE otherArm) : TRUE,
                           values, loc, cur)
          ELSE IF value.ty # "number" THEN FormatFail
          ELSE FormatEls(CHOOSE a \in (IF exactArm # {} THEN exactArm
                                       ELSE IF ruleArm # {} THEN ruleArm
                                       ELSE otherArm) : TRUE,
                         values, loc, shifted)
    IN IF ~first.ok THEN FormatFail
       ELSE LET rest == FormatEls(Tail(els), values, loc, cur)
            IN IF ~rest.ok THEN FormatFail
               ELSE [ok |-> TRUE, out |-> first.out \o rest.out,
                     parts |-> first.parts + rest.parts,
                     objs |-> first.objs + rest.objs]

\* The strings Intl rejects as a locale with a RangeError: a language subtag
\* has at most eight letters, 'constructor' has eleven.
IllFormedLocales == {CONSTRUCTOR}

\* new IntlMessageFormat(message, loc).format(values): [ok |-> FALSE] when the
\* constructor or format throws; otherwise the parts (format returns a string
\* when none is an object, the object itself when it is the only part, and an
\* array otherwise)
IntlMessageFormat(message, loc, values) ==
  LET parsed == ParseMessage(message, 1, 0, "", FALSE)
  IN IF ~parsed.ok \/ loc \in IllFormedLocales THEN FormatFail
     ELSE FormatEls(parsed.els, values, loc, 0)

----------------------------------------------------------------------------
(* t *)

\* lines 80-88 as they would be if a hash without a template fell through to
\* the direct key
currentTranslation_FallsThrough(text, namespace) ==
  LET hash == Lookup(meta, locale.s, namespace, text)
      hashed == Lookup(messages, locale.s, namespace, hash.s)
  IN IF Truthy(hash) /\ Truthy(hashed) THEN hashed
     ELSE Lookup(messages, locale.s, namespace, text)

\* lines 80-88 as they would be if the direct key were tried first
currentTranslation_DirectFirst(text, namespace) ==
  LET direct == Lookup(messages, locale.s, namespace, text)
      hash == Lookup(meta, locale.s, namespace, text)
  IN IF Truthy(direct) \/ ~Truthy(hash) THEN direct
     ELSE Lookup(messages, locale.s, namespace, hash.s)

\* lines 80-88: the current locale's entry for text
currentTranslation(text, namespace) ==
  LET hash == Lookup(meta, locale.s, namespace, text)
  IN IF Truthy(hash)
       THEN Lookup(messages, locale.s, namespace, hash.s)
       ELSE Lookup(messages, locale.s, namespace, text)

\* lines 92-99: the fallback locale's entry for text
fallbackTranslation(text, namespace) ==
  LET fallbackHash == Lookup(meta, fallbackLocale.s, namespace, text)
  IN IF Truthy(fallbackHash)
       THEN Lookup(messages, fallbackLocale.s, namespace, fallbackHash.s)
       ELSE Lookup(messages, fallbackLocale.s, namespace, text)

\* lines 77-109 as they would be if the fallback locale were asked first
translatedTemplate_FallbackFirst(text, namespace) ==
  LET current == currentTranslation(text.s, namespace.s)
      found == IF Truthy(fallbackLocale) /\ Truthy(fallbackTranslation(text.s, namespace.s))
                 THEN fallbackTranslation(text.s, namespace.s)
                 ELSE current
      orText == Or(found, text)
  IN IF Typeof(orText) # "string" THEN text ELSE orText

\* lines 77-109 as they would be if only a missing entry sent t on to the
\* fallback locale and to the text
translatedTemplate_EmptyIsFound(text, namespace) ==
  LET current == currentTranslation(text.s, namespace.s)
      found == IF current.ty = "undefined" /\ Truthy(fallbackLocale)
                 THEN fallbackTranslation(text.s, namespace.s)
                 ELSE current
      orText == IF found.ty = "undefined" THEN text ELSE found
  IN IF Typeof(orText) # "string" THEN text ELSE orText

\* lines 77-109 as they would be without `translated || text`
translatedTemplate_NoEcho(text, namespace) ==
  LET current == currentTranslation(text.s, namespace.s)
      found == IF ~Truthy(current) /\ Truthy(fallbackLocale)
                 THEN fallbackTranslation(text.s, namespace.s)
                 ELSE current
  IN IF Typeof(found) # "string" THEN JStr(<< >>) ELSE found

\* lines 77-109: the template t formats, the value of `translated` at line 110
translatedTemplate(text, namespace) ==
  LET current == currentTranslation(text.s, namespace.s)
      found == IF ~Truthy(current) /\ Truthy(fallbackLocale)
                 THEN fallbackTranslation(text.s, namespace.s)
                 ELSE current
      orText == Or(found, text)
  IN IF Typeof(orText) # "string" THEN text ELSE orText

\* Object.keys(o), in insertion order
ObjectKeys(o) == o.keys

\* lines 130-135: the forEach over the keys of values
RECURSIVE substituteKeys(_, _, _)
substituteKeys(translated, values, keys) ==
  IF keys = << >> THEN translated
  ELSE
    LET key == Head(keys)
        value == values.o[key]
        next == IF Typeof(value) \in {"string", "number"}
                  THEN ReplaceFirst(translated, <<"{">> \o key \o <<"}">>, StringOf(value))
                  ELSE translated
    IN substituteKeys(next, values, Tail(keys))

\* lines 128-138
substitute(translated, values) ==
  IF Truthy(values) /\ Typeof(translated) = "string"
    THEN JStr(substituteKeys(translated.s, values, ObjectKeys(values)))
    ELSE translated

\* line 118 throws a TypeError when format returned a sole object, which has
\* no join
JoinThrows(formatted) == formatted.parts = 1 /\ formatted.objs = 1

\* lines 112-126 as they would be if the catch block fell through to the
\* substitution pass
formatICU_SubstitutesOnError(translated, values) ==
  LET formatted == IntlMessageFormat(translated.s, locale.s, values)
  IN IF formatted.ok /\ ~JoinThrows(formatted) THEN Returned(JStr(formatted.out))
     ELSE Returned(substitute(translated, values))

\* lines 112-126 as they would be if the evaluator were given the fallback
\* locale whenever one is set
formatICU_FallbackLocale(translated, values) ==
  LET rules == IF Truthy(fallbackLocale) THEN fallbackLocale.s ELSE locale.s
      formatted == IntlMessageFormat(translated.s, rules, values)
  IN IF formatted.ok /\ ~JoinThrows(formatted) THEN Returned(JStr(formatted.out))
     ELSE Returned(translated)

\* lines 112-126: what t does with a template detected as ICU
formatICU(translated, values) ==
  LET formatted == IntlMessageFormat(translated.s, locale.s, values)
  IN IF formatted.ok /\ ~JoinThrows(formatted) THEN Returned(JStr(formatted.out))
     ELSE Returned(translated)

\* lines 111-138: what t returns for the template it resolved
formatTemplate(translated, values) ==
  IF isICUMessage(translated)
    THEN formatICU(translated, values)
    ELSE Returned(substitute(translated, values))

\* t as it would be if it looked in the default namespace whatever was asked
t_DefaultNamespaceOnly(text, values, namespaceArg) ==
  formatTemplate(translatedTemplate(text, JStr(DEFAULT_NAMESPACE)), values)

\* t(text, values, namespace): an argument left out is JUndefined
t(text, values, namespaceArg) ==
  LET namespace == IF namespaceArg.ty = "undefined"
                     THEN JStr(DEFAULT_NAMESPACE) ELSE namespaceArg
  IN formatTemplate(translatedTemplate(text, namespace), values)

\* a values object: its properties and the order they were inserted in
Vals(keys, f) == [ty |-> "object", o |-> f, keys |-> keys]

----------------------------------------------------------------------------
(* The provider's translate: I18nProvider's t of src/src/react.jsx (lines  *)
(* 48-139) and of src/test-app/App.tsx (lines 880-980).  impl names the    *)
(* file: "react" or "app".                                                 *)

REACT == "react"
APP == "app"

\* what a tag handler returns: a node the model knows only by the function
\* that made it and the arguments it was given
Node(by, args) == [ty |-> "object", by |-> by, args |-> args]

\* <span key={i}>{part}</span>
SpanElement(i, part) == [ty |-> "object", element |-> "span", key |-> i, children |-> part]

JArray(items) == [ty |-> "array", items |-> items]

\* f(...args) as a plain call, `this` undefined: Object.prototype.valueOf
\* throws a TypeError on an undefined receiver, Object(x) wraps x, and a
\* handler returns its node
CallFunction(f, args) ==
  IF f.name = <<"valueOf">>
    THEN Threw("TypeError", "Cannot convert undefined or null to object")
    ELSE Returned(Node(f.name, args))

\* String(x)
ToStr(x) ==
  CASE x.ty = "undefined" -> <<"undefined">>
    [] x.ty = "null" -> <<"null">>
    [] x.ty = "function" -> FunctionText(x)
    [] x.ty \in {"string", "number"} -> StringOf(x)
    [] OTHER -> <<OBJECT_TEXT>>

\* the values handed to the core t: react.jsx line 51 hands values on as they
\* are, App.tsx lines 888-893 drop the entries that are functions
coreValues(impl, values) ==
  IF impl = REACT THEN values
  ELSE IF Truthy(values) /\ Typeof(values) = "object"
    THEN LET kept == SelectSeq(ObjectKeys(values),
                               LAMBDA k : Typeof(values.o[k]) # "function")
         IN Vals(kept, [k \in {kept[i] : i \in 1..Len(kept)} |-> values.o[k]])
    ELSE JUndefined

\* the first position at or after i that holds a `<`, or Len(s) + 1
RECURSIVE NextLt(_, _)
NextLt(s, i) == IF i <= Len(s) /\ s[i] # "<" THEN NextLt(s, i + 1) ELSE i

\* /<(\w+)>([^<]*)<\/\1>/ matched at position i: the content runs up to the
\* next `<`, which must open the closing tag of the same name
TagAt(s, i) ==
  LET j == NextLt(s, i + 3) IN
  IF /\ i + 2 <= Len(s) /\ s[i] = "<" /\ IsWord(s[i + 1]) /\ s[i + 2] = ">"
     /\ j + 3 <= Len(s) /\ s[j + 1] = "/" /\ s[j + 2] = s[i + 1] /\ s[j + 3] = ">"
    THEN [ok |-> TRUE, index |-> i, end |-> j + 4, tagName |-> <<s[i + 1]>>,
          content |-> SubSeq(s, i + 3, j - 1), fullMatch |-> SubSeq(s, i, j + 3)]
    ELSE [ok |-> FALSE]

\* content.match(/^\{(\w+)\}$/)
VarMatch(content) == Len(content) = 3 /\ content[1] = "{" /\ IsWord(content[2]) /\ content[3] = "}"

\* react.jsx lines 72-79, App.tsx lines 915-923: the content a handler is given
processedContent(impl, content, values) ==
  IF VarMatch(content) /\ Truthy(values)
    THEN IF impl = REACT THEN Index(values, <<content[2]>>)
         ELSE JStr(ToStr(Index(values, <<content[2]>>)))
    ELSE JStr(content)

\* values && values[tagName]
inlineHandler(values, tagName) == IF Truthy(values) THEN Index(values, tagName) ELSE values

\* components[tagName]
globalHandler(components, tagName) == Index(components, tagName)

\* the handlers as they would be if the inline one were applied first
spanPart_InlineFirst(impl, m, values, components, loc) ==
  LET content == processedContent(impl, m.content, values)
      inline == inlineHandler(values, m.tagName)
      global == globalHandler(components, m.tagName)
  IN
  IF Typeof(inline) = "function" /\ Typeof(global) = "function"
    THEN LET formatted == CallFunction(inline, <<content, loc>>) IN
         IF formatted.threw THEN formatted
         ELSE CallFunction(global, IF impl = REACT THEN <<formatted.value>>
                                   ELSE <<formatted.value, loc>>)
  ELSE IF Typeof(inline) = "function" THEN CallFunction(inline, <<content, loc>>)
  ELSE IF Typeof(global) = "function" THEN CallFunction(global, <<content, loc>>)
  ELSE Returned(JStr(m.fullMatch))

\* react.jsx lines 81-107, App.tsx lines 925-948: the part pushed for the
\* match m, or what a handler threw
spanPart(impl, m, values, components, loc) ==
  LET content == processedContent(impl, m.content, values)
      inline == inlineHandler(values, m.tagName)
      global == globalHandler(components, m.tagName)
  IN
  IF Typeof(inline) = "function" /\ Typeof(global) = "function"
    THEN LET formatted == CallFunction(global, <<content, loc>>) IN
         IF formatted.threw THEN formatted
         ELSE CallFunction(inline, IF impl = REACT THEN <<formatted.value>>
                                   ELSE <<formatted.value, loc>>)
  ELSE IF Typeof(inline) = "function" THEN CallFunction(inline, <<content, loc>>)
  ELSE IF Typeof(global) = "function" THEN CallFunction(global, <<content, loc>>)
  ELSE Returned(JStr(m.fullMatch))

\* hasReplacements is set for the match m
hasHandler(m, values, components) ==
  Typeof(inlineHandler(values, m.tagName)) = "function" \/
  Typeof(globalHandler(components, m.tagName)) = "function"

\* the while loop and the push after it (react.jsx lines 62-115, App.tsx
\* lines 905-956), from position i on with lastIndex = last - 1: the parts
\* pushed and hasReplacements, or what a handler threw
RECURSIVE tagPass(_, _, _, _, _, _, _)
tagPass(impl, s, i, last, values, components, loc) ==
  IF i > Len(s)
    THEN [threw |-> FALSE, hasReplacements |-> FALSE,
          parts |-> IF last <= Len(s) THEN <<JStr(SubSeq(s, last, Len(s)))>> ELSE << >>]
  ELSE IF ~TagAt(s, i).ok THEN tagPass(impl, s, i + 1, last, values, components, loc)
  ELSE
    LET m == TagAt(s, i)
        before == IF i > last THEN <<JStr(SubSeq(s, last, i - 1))>> ELSE << >>
        part == spanPart(impl, m, values, components, loc)
        rest == tagPass(impl, s, m.end, m.end, values, components, loc)
    IN IF part.threw THEN part
       ELSE IF rest.threw THEN rest
       ELSE [threw |-> FALSE,
             hasReplacements |-> hasHandler(m, values, components) \/ rest.hasReplacements,
             parts |-> before \o <<part.value>> \o rest.parts]

\* parts.map((part, i) => typeof part === 'string' ? part : <span key={i}>{part}</span>)
wrapParts(parts) ==
  [i \in 1..Len(parts) |->
     IF Typeof(parts[i]) = "string" THEN parts[i] ELSE SpanElement(i - 1, parts[i])]

\* react.jsx lines 125-136, App.tsx lines 966-977: the variable pass
variablePass(translated, values) ==
  IF Truthy(values) THEN JStr(substituteKeys(translated.s, values, ObjectKeys(values)))
  ELSE translated

\* the interpolation as it would be if it returned the parts whenever a tag
\* was matched
interpolate_PartsOnAnyMatch(impl, components, loc, translated, values) ==
  LET tags == tagPass(impl, translated.s, 1, 1, values, components, loc)
  IN IF tags.threw THEN tags
     ELSE IF (\E i \in 1..Len(translated.s) : TagAt(translated.s, i).ok) /\ tags.parts # << >>
       THEN Returned(JArray(wrapParts(tags.parts)))
     ELSE Returned(variablePass(translated, values))

\* react.jsx lines 53-136, App.tsx lines 896-977: what the provider's t makes
\* of the string translated the core returned
interpolate(impl, components, loc, translated, values) ==
  LET tags == tagPass(impl, translated.s, 1, 1, values, components, loc)
  IN IF tags.threw THEN tags
     ELSE IF tags.hasReplacements /\ tags.parts # << >>
       THEN Returned(JArray(wrapParts(tags.parts)))
     ELSE Returned(variablePass(translated, values))

\* the provider's t(text, values, namespace), for a provider whose registry is
\* components and whose locale state is loc: the core translates first, and
\* the string it returned is interpolated
providerT(impl, components, loc, text, values, namespaceArg) ==
  CHOOSE result \in {interpolate(impl, components, loc, translated, values) :
                       translated \in {t(text, coreValues(impl, values), namespaceArg).value}} :
    TRUE

----------------------------------------------------------------------------
(* The extractor (src/cli/extract.js).  It never looks inside a source text *)
(* or a hash, so here both are plain strings; a JSON file is a function    *)
(* from its keys to its values, and a file that does not exist reads as {} *)
(* (lines 162-171).                                                        *)

\* the names every object inherits, and what a function reads as when it is
\* used as a key
InheritedTexts == {"constructor"}
NATIVE_FUNCTION == "function Object() { [native code] }"

\* attempts < 100 (line 186)
MaxAttempts == 100

\* the suffix of the first candidate: the text itself is hashed
NoSuffix == 0 - 1

\* generateMessageHash(text) and generateMessageHash(text + attempts), lines
\* 21-26: the first eight digits of the SHA-256, which digest stands for; the
\* hash functions of the model give one hash to text and one to every
\* text + attempts
generateMessageHash(digest, text, suffix) ==
  IF suffix = NoSuffix THEN digest[text].first ELSE digest[text].retry

\* Object.values(o)
ObjectValues(o) == {o[k] : k \in DOMAIN o}

\* lines 183-189: the while loop over the candidates
RECURSIVE newHash(_, _, _, _, _)
newHash(digest, updatedMeta, text, hash, attempts) ==
  IF hash \in ObjectValues(updatedMeta) /\ attempts < MaxAttempts
    THEN newHash(digest, updatedMeta, text,
                 generateMessageHash(digest, text, attempts), attempts + 1)
    ELSE hash

\* existingMeta[sourceText] is truthy (line 179): an own entry that is not
\* '', or a member every object inherits
hasHash(existingMeta, sourceText) ==
  IF sourceText \in DOMAIN existingMeta THEN existingMeta[sourceText] # ""
  ELSE sourceText \in InheritedTexts

\* lines 177-190: the hash of sourceText, the existing one or a new one
hashFor(digest, existingMeta, updatedMeta, sourceText) ==
  IF hasHash(existingMeta, sourceText)
    THEN (IF sourceText \in DOMAIN existingMeta THEN existingMeta[sourceText]
          ELSE NATIVE_FUNCTION)
    ELSE newHash(digest, updatedMeta, sourceText,
                 generateMessageHash(digest, sourceText, NoSuffix), 0)

\* lines 198-203: the translation written under hash
translationFor(config, loc, existingMessages, hash, sourceText) ==
  IF hash \in DOMAIN existingMessages THEN existingMessages[hash]
  ELSE IF loc = config.sourceLocale THEN sourceText ELSE ""

\* lines 177-204: the loop over the texts of one namespace, from the i-th on
RECURSIVE forEachText(_, _, _, _, _, _, _)
forEachText(config, digest, loc, texts, i, existing, updated) ==
  IF i > Len(texts) THEN updated
  ELSE
    LET sourceText == texts[i]
        hash == hashFor(digest, existing.meta, updated.meta, sourceText)
        translation == translationFor(config, loc, existing.messages, hash, sourceText)
    IN forEachText(config, digest, loc, texts, i + 1, existing,
                   [meta |-> (sourceText :> hash) @@ updated.meta,
                    messages |-> (hash :> translation) @@ updated.messages,
                    new |-> updated.new + (IF hasHash(existing.meta, sourceText) THEN 0 ELSE 1)])

Restrict(f, keys) == [k \in keys |-> f[k]]

\* lines 162-237 for one locale and one namespace with the texts found for
\* it: the two files read, the loop, the entries of texts no longer found
\* deleted from the meta (lines 208-218; the delete of line 215 never finds an
\* entry, no entry of updatedMessages being undefined), and the two files
\* written, where JSON.stringify leaves out an entry whose value is a function
extractNamespace(config, digest, loc, texts, existing) ==
  LET updated == forEachText(config, digest, loc, texts, 1, existing,
                             [meta |-> existing.meta, messages |-> << >>, new |-> 0])
      found == {texts[i] : i \in 1..Len(texts)}
      kept == {k \in DOMAIN updated.meta : k \in DOMAIN existing.meta => k \in found}
  IN [meta |-> Restrict(updated.meta, {k \in kept : updated.meta[k] # NATIVE_FUNCTION}),
      messages |-> updated.messages,
      new |-> updated.new]

\* lines 148-222: every locale of the configuration, every namespace in which
\* a text was found; the files of other namespaces and locales are not touched
extractMessages(config, digest, code, files) ==
  [loc \in DOMAIN files |->
    [ns \in DOMAIN files[loc] |->
      IF loc \in {config.locales[i] : i \in 1..Len(config.locales)} /\ code[ns] # << >>
        THEN extractNamespace(config, digest, loc, code[ns], files[loc][ns])
        ELSE [meta |-> files[loc][ns].meta, messages |-> files[loc][ns].messages, new |-> 0]]]

\* i18n.config: the source locale and the locales
ExtractConfig == [sourceLocale |-> "en", locales |-> <<"en", "ko">>]
ConfigLocales == {ExtractConfig.locales[i] : i \in 1..Len(ExtractConfig.locales)}
Namespaces == {"common", "cart"}

\* the texts of the t() calls in the code, and the hashes sha256 gives
Texts == {"Hello", "Bye", "constructor"}
Hashes == {"a1b2c3d4", "e5f6a7b8"}

\* the hash functions: any hash for 'Hello', 'Bye', for each of them with a
\* number appended
Digests ==
  {d \in [Texts -> [first : Hashes, retry : Hashes]] :
     d["constructor"] = [first |-> "a1b2c3d4", retry |-> "e5f6a7b8"]}
\* a hash function without collisions
Sha256 ==
  [text \in Texts |->
     IF text = "Bye" THEN [first |-> "e5f6a7b8", retry |-> "a1b2c3d4"]
     ELSE [first |-> "a1b2c3d4", retry |-> "e5f6a7b8"]]

NoFile == [meta |-> << >>, messages |-> << >>]
NoFiles == [loc \in ConfigLocales |-> [ns \in Namespaces |-> NoFile]]

\* a project without t() calls and without resource files
NewProject(digest) ==
  [code |-> [ns \in Namespaces |-> << >>], files |-> NoFiles, digest |-> digest]

----------------------------------------------------------------------------
(* The configurations, locales and calls the model draws from *)

EN == <<"en">>
KO == <<"ko">>
FR == <<"fr">>
RU == <<"ru">>
COMMON == <<"common">>
CART == <<"cart">>

\* One source text and its hash, stored per locale in one of the ways a
\* (locale, namespace) cell of messages and meta can hold it: meta maps the
\* text to the hash (m), messages has the hash (h), messages has the text
\* itself as a key (d).
Key == <<"test_key">>
Hash == <<"hash123">>
MetaValue(l) == <<"Meta", " ", "Value", " ", l[1]>>
DirectValue(l) == <<"Direct", " ", "Key", " ", "Value", " ", l[1]>>

Shapes ==
  {[present |-> FALSE, m |-> FALSE, h |-> FALSE, d |-> FALSE]} \cup
  {sh \in [present : {TRUE}, m : BOOLEAN, h : BOOLEAN, d : BOOLEAN] : sh.h => sh.m}

MessagesCell(l, sh) ==
  JObj((IF sh.h THEN Hash :> JStr(MetaValue(l)) ELSE << >>) @@
       (IF sh.d THEN Key :> JStr(DirectValue(l)) ELSE << >>))

ShapedMessages(shEn, shKo) ==
  JObj((IF shEn.present THEN EN :> JObj(COMMON :> MessagesCell(EN, shEn)) ELSE << >>) @@
       (IF shKo.present THEN KO :> JObj(COMMON :> MessagesCell(KO, shKo)) ELSE << >>))

ShapedMeta(shEn, shKo) ==
  JObj((IF shEn.m THEN EN :> JObj(COMMON :> JObj(Key :> JStr(Hash))) ELSE << >>) @@
       (IF shKo.m THEN KO :> JObj(COMMON :> JObj(Key :> JStr(Hash))) ELSE << >>))

\* { locale, messages, meta?, fallbackLocale? }: meta is left out when no
\* locale has a meta entry, fallbackLocale when fb is the empty sequence
ShapedConfig(l, fb, shEn, shKo) ==
  JObj(("locale" :> JStr(l)) @@ ("messages" :> ShapedMessages(shEn, shKo)) @@
       (IF shEn.m \/ shKo.m THEN "meta" :> ShapedMeta(shEn, shKo) ELSE << >>) @@
       (IF fb # << >> THEN "fallbackLocale" :> JStr(fb) ELSE << >>))

\* init with locale 'en'; setLocale('ko') then makes 'ko' the current locale
ShapedConfigs ==
  {ShapedConfig(EN, fb, shEn, shKo) : fb \in {<< >>, KO}, shEn \in Shapes, shKo \in Shapes}

\* Templates of the test suite (src/unnamed/part_000)
Items ==
  <<"{", "count", ",", " ", "plural", ",", " ", "=", "0", " ", "{", "no", " ", "items", "}",
    " ", "one", " ", "{", "#", " ", "item", "}",
    " ", "other", " ", "{", "#", " ", "items", "}", "}">>
ItemsKo ==
  <<"{", "count", ",", " ", "plural", ",", " ", "=", "0", " ", "{", "none", "}",
    " ", "other", " ", "{", "#", " ", "things", "}", "}">>
Broken ==
  <<"{", "count", ",", " ", "plural", ",", " ", "one", " ", "{", "#", " ", "item", "}">>
BrokenNamed == <<"{", "name", "}", " ", "has", " ">> \o Broken
NamedItems == <<"{", "name", "}", " ", "has", " ">> \o Items
HelloName == <<"Hello", " ", "{", "name", "}">>
HelloNameKo == <<"Annyeong", " ", "{", "name", "}">>
UseVariable == <<"Use", " ", "{", "variable", "}", " ", "for", " ", "substitution">>
\* A plural construct on count, built from its arms: `selector {text}` after
\* `{count, plural,` and, when there is one, `offset:N`
Arm(sel, text) == [sel |-> sel, text |-> text]

RECURSIVE ArmsText(_)
ArmsText(arms) ==
  IF arms = << >> THEN << >>
  ELSE <<" ">> \o Head(arms).sel \o <<" ", "{">> \o Head(arms).text \o <<"}">>
       \o ArmsText(Tail(arms))

PluralTemplate(arms, offset) ==
  <<"{", "count", ",", " ", "plural", ",">> \o
  (IF offset > 0 THEN <<" ", "offset", ":", ToString(offset)>> ELSE << >>) \o
  ArmsText(arms) \o <<"}">>

\* 'items' of the test suite (part_000, line 139), by its arms
ItemsArms ==
  <<Arm(<<"=", "0">>, <<"no", " ", "items">>),
    Arm(<<"one">>, <<"#", " ", "item">>),
    Arm(<<"other">>, <<"#", " ", "items">>)>>
\* a keyword arm written before an exact arm for the same count, and an arm
\* with two `#`
ExactlyArms ==
  <<Arm(<<"one">>, <<"#", " ", "item">>),
    Arm(<<"=", "1">>, <<"exactly", " ", "one">>),
    Arm(<<"other">>, <<"#", " ", "of", " ", "#", " ", "items">>)>>
\* no arm for the category `one`
ThingsArms ==
  <<Arm(<<"=", "0">>, <<"none">>), Arm(<<"other">>, <<"#", " ", "things">>)>>
\* 'attendees' of the test suite (part_000, line 247)
AttendeesArms ==
  <<Arm(<<"=", "0">>, <<"Nobody">>),
    Arm(<<"=", "1">>, <<"Just", " ", "you">>),
    Arm(<<"one">>, <<"You", " ", "and", " ", "#", " ", "other">>),
    Arm(<<"other">>, <<"You", " ", "and", " ", "#", " ", "others">>)>>
\* an offset and an exact arm for the number the offset leaves
GuestsArms ==
  <<Arm(<<"=", "1">>, <<"one", " ", "guest">>),
    Arm(<<"one">>, <<"host", " ", "and", " ", "#", " ", "guest">>),
    Arm(<<"other">>, <<"host", " ", "and", " ", "#", " ", "guests">>)>>

\* the plural constructs of the model: arms and offset
PluralForms ==
  {[arms |-> ItemsArms, offset |-> 0], [arms |-> ExactlyArms, offset |-> 0],
   [arms |-> ThingsArms, offset |-> 0], [arms |-> AttendeesArms, offset |-> 1],
   [arms |-> GuestsArms, offset |-> 1]}

\* 'should handle large numbers', part_000 line 159
LargeCount == 100

\* a placeholder that occurs twice
Twice == <<"{", "name", "}", " ", "and", " ", "{", "name", "}">>
\* a placeholder followed by a construct whose type only begins with a keyword
Labelled == <<"{", "name", "}", ":", " ", "{", "count", ",", " ", "numbers", "}">>
\* an ICU construct between apostrophes is literal text to the ICU parser
Quoted == <<"'", "{", "count", ",", " ", "number", "}", "'">>

Config(l, msgs) == JObj(("locale" :> JStr(l)) @@ ("messages" :> msgs))

\* beforeEach of 'i18n Core', lines 73-92
CoreMessages ==
  JObj((EN :> JObj(COMMON :> JObj((<<"hello">> :> JStr(<<"Hello">>)) @@
                                  (<<"hello_name">> :> JStr(HelloName))))) @@
       (KO :> JObj(COMMON :> JObj((<<"hello">> :> JStr(<<"Annyeong">>)) @@
                                  (<<"hello_name">> :> JStr(HelloNameKo))))))

\* 'Fallback locale', lines 280-298
FallbackMessages ==
  JObj((EN :> JObj(COMMON :> JObj(<<"hello">> :> JStr(<<"Hello">>)))) @@
       (KO :> JObj(COMMON :> JObj((<<"hello">> :> JStr(<<"Annyeong">>)) @@
                                  (<<"korean_only">> :> JStr(<<"Hangugeoman">>))))))

\* 'Namespace support', lines 310-323
NamespaceMessages ==
  JObj(EN :> JObj((COMMON :> JObj(<<"hello">> :> JStr(<<"Hello">>))) @@
                  (CART :> JObj((<<"add">> :> JStr(<<"Add", " ", "to", " ", "cart">>)) @@
                                (<<"hello">> :> JStr(<<"Hello", " ", "cart">>))))))

\* 'Error handling', lines 341-368, and 't() - ICU Plural', lines 134-144
FormatMessages ==
  JObj(EN :> JObj(COMMON :> JObj((<<"broken">> :> JStr(Broken)) @@
                                 (<<"broken_named">> :> JStr(BrokenNamed)) @@
                                 (<<"named_items">> :> JStr(NamedItems)) @@
                                 (<<"code">> :> JStr(UseVariable)) @@
                                 (<<"twice">> :> JStr(Twice)) @@
                                 (<<"labelled">> :> JStr(Labelled)) @@
                                 (<<"exactly">> :> JStr(PluralTemplate(ExactlyArms, 0))) @@
                                 (<<"things">> :> JStr(PluralTemplate(ThingsArms, 0))) @@
                                 (<<"attendees">> :> JStr(PluralTemplate(AttendeesArms, 1))) @@
                                 (<<"guests">> :> JStr(PluralTemplate(GuestsArms, 1))) @@
                                 (<<"items">> :> JStr(Items)))))

\* 'Hash-based keys with meta mapping', lines 374-410
HashMessages ==
  JObj((EN :> JObj(COMMON :> JObj((<<"e5f6g7h8">> :> JStr(HelloName)) @@
                                  (<<"f9e8d7c6">> :> JStr(Items))))) @@
       (KO :> JObj(COMMON :> JObj((<<"e5f6g7h8">> :> JStr(HelloNameKo)) @@
                                  (<<"f9e8d7c6">> :> JStr(ItemsKo))))))
HashMetaCell == JObj((HelloName :> JStr(<<"e5f6g7h8">>)) @@ (Items :> JStr(<<"f9e8d7c6">>)))
HashMeta == JObj((EN :> JObj(COMMON :> HashMetaCell)) @@ (KO :> JObj(COMMON :> HashMetaCell)))

\* What the extractor writes for a new message (src/cli/extract.js, lines
\* 198-203): the source text in the source locale, '' in every other locale.
ExtractedMessages ==
  JObj((EN :> JObj(COMMON :> JObj(Hash :> JStr(MetaValue(EN))))) @@
       (KO :> JObj(COMMON :> JObj(Hash :> JStr(<< >>)))))
ExtractedMeta ==
  JObj((EN :> JObj(COMMON :> JObj(Key :> JStr(Hash)))) @@
       (KO :> JObj(COMMON :> JObj(Key :> JStr(Hash)))))

\* A store with values that are no strings, as a messages file parsed from
\* JSON can hold them: an object, a number, 0, null
NestedSource == <<"Nested", " ", "source">>
NonStringMessages ==
  JObj((EN :> JObj(COMMON :> JObj((<<"nested">> :> JObj(<<"title">> :> JStr(<<"Title">>))) @@
                                  (<<"menu">> :> JObj(<<"title">> :> JStr(<<"Menu">>))) @@
                                  (<<"answer">> :> JNum(4)) @@
                                  (<<"zero">> :> JNum(0)) @@
                                  (<<"nothing">> :> JNull) @@
                                  (<<"h1">> :> JObj(<<"title">> :> JStr(<<"Title">>))) @@
                                  (HelloName :> JNum(4)) @@
                                  (<<"hello">> :> JStr(<<"Hello">>))))) @@
       (KO :> JObj(COMMON :> JObj((<<"nested">> :> JStr(<<"Jungcheop">>)) @@
                                  (<<"zero">> :> JStr(<<"Yeong">>)) @@
                                  (<<"nothing">> :> JNum(4)) @@
                                  (<<"hello">> :> JStr(<<"Annyeong">>))))))
NonStringMeta == JObj(EN :> JObj(COMMON :> JObj(NestedSource :> JStr(<<"h1">>))))

WithFallback(config, fb) == JObj(config.o @@ ("fallbackLocale" :> fb))
WithMeta(config, m) == JObj(config.o @@ ("meta" :> m))

ExtractedConfigs ==
  {WithFallback(WithMeta(Config(KO, ExtractedMessages), ExtractedMeta), JStr(EN)),
   WithMeta(Config(KO, ExtractedMessages), ExtractedMeta)}

TestConfigs ==
  ExtractedConfigs \cup
  {Config(EN, CoreMessages), Config(KO, CoreMessages),
   WithFallback(Config(EN, FallbackMessages), JStr(KO)),
   WithFallback(Config(EN, FallbackMessages), JStr(<< >>)),
   Config(EN, NamespaceMessages),
   Config(EN, FormatMessages),
   WithMeta(Config(EN, HashMessages), HashMeta),
   WithMeta(Config(KO, HashMessages), HashMeta)}

\* Configurations init refuses
BadConfigs ==
  {JUndefined, JNull, JStr(EN),
   JObj("messages" :> EmptyObject),
   JObj("locale" :> JStr(EN)),
   JObj(("locale" :> JStr(<< >>)) @@ ("messages" :> CoreMessages)),
   JObj(("locale" :> JNum(1)) @@ ("messages" :> CoreMessages)),
   JObj(("locale" :> JStr(EN)) @@ ("messages" :> JStr(EN))),
   Config(FR, CoreMessages),
   Config(EN, EmptyObject)}

\* A configuration whose locale names no entry of its messages but a member
\* every object inherits
InheritedConfigs == {Config(CONSTRUCTOR, CoreMessages)}

NonStringConfigs ==
  {WithMeta(Config(EN, NonStringMessages), NonStringMeta),
   WithFallback(WithMeta(Config(EN, NonStringMessages), NonStringMeta), JStr(KO)),
   WithFallback(WithMeta(Config(KO, NonStringMessages), NonStringMeta), JStr(EN))}

Configs == TestConfigs \cup BadConfigs \cup InheritedConfigs \cup NonStringConfigs
\* The empty string where a template is expected: under the hash in both
\* locales (a message the extractor added to two non-source locales), and as
\* the value of a direct key
UntranslatedMessages ==
  JObj((EN :> JObj(COMMON :> JObj(Hash :> JStr(<< >>)))) @@
       (KO :> JObj(COMMON :> JObj(Hash :> JStr(<< >>)))))
EmptyDirectMessages ==
  JObj((EN :> JObj(COMMON :> JObj(Key :> JStr(DirectValue(EN))))) @@
       (KO :> JObj(COMMON :> JObj(Key :> JStr(<< >>)))))
EmptyConfigs ==
  {WithFallback(WithMeta(Config(KO, UntranslatedMessages), ExtractedMeta), JStr(EN)),
   WithFallback(Config(KO, EmptyDirectMessages), JStr(EN)),
   Config(KO, EmptyDirectMessages)}

ResolveConfigs == ShapedConfigs \cup ExtractedConfigs \cup EmptyConfigs

\* the arguments of setLocale
LocaleArgs ==
  {JStr(EN), JStr(KO), JStr(FR), JStr(CONSTRUCTOR), JStr(<< >>), JUndefined, JNum(1)}
ResolveLocaleArgs == {JStr(EN), JStr(KO), JStr(FR)}

Count(n) == Vals(<<(<<"count">>)>>, <<"count">> :> JNum(n))
Name(who) == Vals(<<(<<"name">>)>>, <<"name">> :> JStr(who))
NameCount(who, n) ==
  Vals(<<(<<"name">>), (<<"count">>)>>, (<<"name">> :> JStr(who)) @@ (<<"count">> :> JNum(n)))
NoValues == Vals(<< >>, << >>)

TCall(text, values, namespace) == [text |-> JStr(text), values |-> values, namespace |-> namespace]

\* the arguments of t
ResolveCalls ==
  {TCall(Key, JUndefined, ns) : ns \in {JUndefined, JStr(COMMON), JStr(CART)}}

TCalls ==
  ResolveCalls \cup
  {TCall(<<"hello">>, JUndefined, ns) :
     ns \in {JUndefined, JStr(CART), JStr(<<"invalid_namespace">>)}} \cup
  {TCall(<<"hello_name">>, v, JUndefined) : v \in {JUndefined, Name(<<"John">>)}} \cup
  {TCall(HelloName, v, JUndefined) : v \in {JUndefined, Name(<<"John">>)}} \cup
  {TCall(<<"korean_only">>, JUndefined, JUndefined),
   TCall(<<"missing_key">>, JUndefined, JUndefined),
   TCall(<<"add">>, NoValues, JStr(CART)),
   TCall(<<"add">>, JUndefined, JUndefined),
   TCall(<<"broken">>, Count(1), JUndefined),
   TCall(<<"twice">>, Name(<<"John">>), JUndefined),
   TCall(<<"labelled">>, NameCount(<<"John">>, 1), JUndefined),
   TCall(<<"broken_named">>, NameCount(<<"John">>, 1), JUndefined),
   TCall(<<"code">>, Vals(<<(<<"variable">>)>>, <<"variable">> :> JStr(<<"count">>)), JUndefined),
   TCall(Quoted, JUndefined, JUndefined),
   TCall(<<"name">>, JUndefined, JStr(CONSTRUCTOR))} \cup
  {TCall(k, JUndefined, JUndefined) :
     k \in {<<"nested">>, <<"menu">>, <<"answer">>, <<"zero">>, <<"nothing">>, NestedSource}} \cup
  {TCall(<<"named_items">>, v, JUndefined) : v \in {Name(<<"John">>), NameCount(<<"John">>, 1)}} \cup
  {TCall(<<"items">>, v, JUndefined) :
     v \in {JUndefined, Count(0), Count(1), Count(MaxNum), Count(LargeCount)}} \cup
  {TCall(k, Count(n), JUndefined) :
     k \in {<<"exactly">>, <<"things">>, <<"attendees">>, <<"guests">>}, n \in {0, 1, 2, MaxNum}} \cup
  {TCall(Items, v, JUndefined) : v \in {JUndefined, Count(1), Count(MaxNum)}}

----------------------------------------------------------------------------
(* The module as a state machine: any caller may make any call at any time *)

Loaded ==
  /\ locale = JStr(KO)
  /\ fallbackLocale = JNull
  /\ messages = EmptyObject
  /\ meta = EmptyObject
  /\ call = [op |-> "load"]
  /\ outcome = Returned(JUndefined)
  /\ prior = [locale |-> JStr(KO), hasMeta |-> FALSE, hasFallback |-> FALSE]
  /\ ready = FALSE
  /\ provider = [mounted |-> FALSE]
  /\ watcher = [started |-> FALSE, closed |-> FALSE, returned |-> FALSE,
                timer |-> "null", pending |-> FALSE, isProcessing |-> FALSE,
                running |-> 0, events |-> 0, startedAfter |-> 0]

Init == Loaded /\ project = NewProject(Sha256)

Before == [locale |-> locale, hasMeta |-> meta # EmptyObject,
           hasFallback |-> Truthy(fallbackLocale)]

CallInit(config) ==
  LET r == initEffect(config) IN
  /\ locale' = r.locale
  /\ messages' = r.messages
  /\ meta' = r.meta
  /\ fallbackLocale' = r.fallbackLocale
  /\ call' = [op |-> "init", config |-> config]
  /\ outcome' = r.outcome
  /\ prior' = Before
  /\ ready' = (ready \/ ~r.outcome.threw)
  /\ UNCHANGED <<provider, cli>>

\* setLocale as it would be if a change of locale dropped the fallback
CallSetLocale_ResetsFallback(newLocale) ==
  LET r == setLocaleEffect(newLocale) IN
  /\ locale' = r.locale
  /\ fallbackLocale' = IF r.outcome.threw THEN fallbackLocale ELSE JNull
  /\ call' = [op |-> "setLocale", newLocale |-> newLocale]
  /\ outcome' = r.outcome
  /\ prior' = Before
  /\ UNCHANGED <<messages, meta, ready, provider, cli>>

CallSetLocale(newLocale) ==
  LET r == setLocaleEffect(newLocale) IN
  /\ locale' = r.locale
  /\ call' = [op |-> "setLocale", newLocale |-> newLocale]
  /\ outcome' = r.outcome
  /\ prior' = Before
  /\ UNCHANGED <<fallbackLocale, messages, meta, ready, provider, cli>>

CallGetLocale ==
  /\ call' = [op |-> "getLocale"]
  /\ outcome' = Returned(getLocale)
  /\ prior' = Before
  /\ UNCHANGED <<engine, ready, provider, cli>>

CallT(c) ==
  /\ call' = [op |-> "t", text |-> c.text, values |-> c.values, namespace |-> c.namespace]
  /\ outcome' = t(c.text, c.values, c.namespace)
  /\ prior' = Before
  /\ UNCHANGED <<engine, ready, provider, cli>>

\* the calls of a caller that draws its arguments from the given sets
Step(configs, localeArgs, calls) ==
  \/ \E config \in configs : CallInit(config)
  \/ \E newLocale \in localeArgs : CallSetLocale(newLocale)
  \/ CallGetLocale
  \/ \E c \in calls : CallT(c)

\* the test suite's configurations and calls, and the configurations init refuses
Next == Step(Configs, LocaleArgs, TCalls)

Spec == Init /\ [][Next]_vars

\* every way the two locales can hold one source text, looked up in three namespaces
NextResolve == Step(ResolveConfigs, ResolveLocaleArgs, ResolveCalls)

SpecResolve == Init /\ [][NextResolve]_vars

----------------------------------------------------------------------------
(* Locale-specific plural rules: 'should use locale-specific plural rules'  *)
(* (part_000, lines 163-178), and the same templates reached through       *)
(* setLocale and through the fallback locale                               *)

\* 'items' of that test (line 169), in Latin letters; its arm `other`, which
\* no integer takes in Russian, is given a text of its own
RuItemsArms ==
  <<Arm(<<"one">>, <<"#", " ", "predmet">>),
    Arm(<<"few">>, <<"#", " ", "predmeta">>),
    Arm(<<"many">>, <<"#", " ", "predmetov">>),
    Arm(<<"other">>, <<"#", " ", "predmeta", " ", "drobno">>)>>
\* an English template that has an arm for every category of Russian
EnItemsArms ==
  <<Arm(<<"one">>, <<"#", " ", "item">>),
    Arm(<<"few">>, <<"#", " ", "few", " ", "items">>),
    Arm(<<"many">>, <<"#", " ", "many", " ", "items">>),
    Arm(<<"other">>, <<"#", " ", "items">>)>>

LocaleForms == {[arms |-> RuItemsArms, offset |-> 0], [arms |-> EnItemsArms, offset |-> 0]}

RuMessages == JObj(RU :> JObj(COMMON :> JObj(<<"items">> :> JStr(PluralTemplate(RuItemsArms, 0)))))

\* both locales hold 'items', and each holds a message the other lacks
RuEnMessages ==
  JObj((EN :> JObj(COMMON :> JObj((<<"items">> :> JStr(PluralTemplate(EnItemsArms, 0))) @@
                                  (<<"english_only">> :> JStr(PluralTemplate(EnItemsArms, 0)))))) @@
       (RU :> JObj(COMMON :> JObj((<<"items">> :> JStr(PluralTemplate(RuItemsArms, 0))) @@
                                  (<<"russian_only">> :> JStr(PluralTemplate(RuItemsArms, 0)))))))

LocaleConfigs ==
  {Config(RU, RuMessages), Config(EN, RuEnMessages), Config(RU, RuEnMessages),
   WithFallback(Config(RU, RuEnMessages), JStr(EN)),
   WithFallback(Config(EN, RuEnMessages), JStr(RU))}

PluralLocaleArgs == {JStr(EN), JStr(RU), JStr(FR)}

PluralCalls ==
  {TCall(k, Count(n), JUndefined) :
     k \in {<<"items">>, <<"english_only">>, <<"russian_only">>}, n \in {0, 1, 2, MaxNum}}

NextLocale == Step(LocaleConfigs, PluralLocaleArgs, PluralCalls)

SpecLocale == Init /\ [][NextLocale]_vars

----------------------------------------------------------------------------
(* The provider as a state machine: it is rendered, its effect calls init, *)
(* and the components below it call its t and its setLocale.               *)

\* Templates with tags: the README's link example (src/README.en.md, lines
\* 180-183) and variations of it
Click == <<"Click", " ", "<", "link", ">", "here", "<", "/", "link", ">", " ", "to", " ", "continue">>
HelloBold == <<"Hello", " ", "<", "bold", ">", "{", "name", "}", "<", "/", "bold", ">">>
Emphasis == <<"<", "em", ">", "hi", "<", "/", "em", ">", " ", "there">>
Method == <<"<", "valueOf", ">", "x", "<", "/", "valueOf", ">">>
Built == <<"<", "constructor", ">", "x", "<", "/", "constructor", ">">>
BoldAndLink ==
  <<"<", "bold", ">", "a", "<", "/", "bold", ">", " ", "and", " ",
    "<", "link", ">", "b", "<", "/", "link", ">">>
ItemsBold ==
  <<"{", "count", ",", " ", "plural", ",",
    " ", "one", " ", "{", "<", "bold", ">", "#", "<", "/", "bold", ">", " ", "item", "}",
    " ", "other", " ", "{", "<", "bold", ">", "#", "<", "/", "bold", ">", " ", "items", "}", "}">>

ProviderMessages ==
  JObj((EN :> JObj(COMMON :> JObj((<<"click">> :> JStr(Click)) @@
                                  (<<"hello_bold">> :> JStr(HelloBold)) @@
                                  (<<"emphasis">> :> JStr(Emphasis)) @@
                                  (<<"method">> :> JStr(Method)) @@
                                  (<<"built">> :> JStr(Built)) @@
                                  (<<"bold_and_link">> :> JStr(BoldAndLink)) @@
                                  (<<"items_bold">> :> JStr(ItemsBold)) @@
                                  (<<"twice">> :> JStr(Twice)) @@
                                  (<<"hello_name">> :> JStr(HelloName))))) @@
       (KO :> JObj(COMMON :> JObj(<<"hello_name">> :> JStr(HelloNameKo)))))

\* the handlers: (children) => <a href="/next">{children}</a> and the like,
\* named by the element they make
Anchor == JFun(<<"a">>)
B == JFun(<<"b">>)
Strong == JFun(<<"strong">>)

\* the components prop: left out (components = {}), or a handler for bold
Registries == {EmptyObject, JObj(<<"bold">> :> Strong)}

\* the props of <I18nProvider>
Props(l, components) ==
  [locale |-> JStr(l), messages |-> ProviderMessages, meta |-> JUndefined,
   fallbackLocale |-> JUndefined, components |-> components]
ProviderProps == {Props(l, c) : l \in {EN, FR}, c \in Registries}

Impls == {REACT, APP}

LinkValues == Vals(<<(<<"link">>)>>, <<"link">> :> Anchor)
BoldValues == Vals(<<(<<"bold">>)>>, <<"bold">> :> B)
LinkBoldValues ==
  Vals(<<(<<"link">>), (<<"bold">>)>>, (<<"link">> :> Anchor) @@ (<<"bold">> :> B))
NameBoldValues ==
  Vals(<<(<<"name">>), (<<"bold">>)>>, (<<"name">> :> JStr(<<"John">>)) @@ (<<"bold">> :> B))
CountBoldValues ==
  Vals(<<(<<"count">>), (<<"bold">>)>>, (<<"count">> :> JNum(1)) @@ (<<"bold">> :> B))

\* a value that is itself the text of a placeholder, for a key that comes
\* after the key it names
TitleNameValues ==
  Vals(<<(<<"title">>), (<<"name">>)>>,
       (<<"title">> :> JStr(<<"Dr">>)) @@ (<<"name">> :> JStr(<<"{", "title", "}">>)))

\* the arguments of the provider's t
ProviderCalls ==
  {TCall(<<"click">>, v, JUndefined) : v \in {JUndefined, NoValues, LinkValues}} \cup
  {TCall(<<"hello_bold">>, v, JUndefined) :
     v \in {JUndefined, Name(<<"John">>), BoldValues, NameBoldValues}} \cup
  {TCall(<<"emphasis">>, v, JUndefined) : v \in {JUndefined, LinkValues}} \cup
  {TCall(<<"bold_and_link">>, v, JUndefined) : v \in {JUndefined, LinkValues, LinkBoldValues}} \cup
  {TCall(<<"items_bold">>, v, JUndefined) : v \in {Count(1), CountBoldValues}} \cup
  {TCall(<<"method">>, JUndefined, JUndefined),
   TCall(<<"built">>, JUndefined, JUndefined),
   TCall(<<"twice">>, Name(<<"John">>), JUndefined),
   TCall(<<"hello_name">>, Name(<<"John">>), JStr(COMMON)),
   TCall(<<"hello_name">>, TitleNameValues, JUndefined),
   TCall(<<"missing_key">>, LinkValues, JUndefined)}

ProviderLocaleArgs == {JStr(EN), JStr(KO), JStr(FR)}

\* <I18nProvider {...props}> is rendered: useState(initialLocale), and the
\* effect is scheduled
Render(impl, props) ==
  /\ provider' = [mounted |-> TRUE, impl |-> impl, locale |-> props.locale,
                  messages |-> props.messages, meta |-> props.meta,
                  fallbackLocale |-> props.fallbackLocale,
                  components |-> props.components, effect |-> TRUE]
  /\ call' = [op |-> "render", impl |-> impl, props |-> props]
  /\ outcome' = Returned(JUndefined)
  /\ prior' = Before
  /\ UNCHANGED <<engine, ready, cli>>

\* the effect runs: init({ locale, messages, meta, fallbackLocale }); an
\* error thrown in an effect unmounts the tree
RunEffect ==
  /\ provider.mounted /\ provider.effect
  /\ LET config == JObj(("locale" :> provider.locale) @@
                        ("messages" :> provider.messages) @@
                        ("meta" :> provider.meta) @@
                        ("fallbackLocale" :> provider.fallbackLocale))
         r == initEffect(config)
     IN /\ locale' = r.locale
        /\ messages' = r.messages
        /\ meta' = r.meta
        /\ fallbackLocale' = r.fallbackLocale
        /\ call' = [op |-> "init", config |-> config]
        /\ outcome' = r.outcome
        /\ ready' = (ready \/ ~r.outcome.threw)
        /\ provider' = IF r.outcome.threw THEN [mounted |-> FALSE]
                       ELSE [provider EXCEPT !.effect = FALSE]
  /\ prior' = Before
  /\ UNCHANGED cli

\* the provider's setLocale: coreSetLocale(newLocale), then
\* setLocaleState(newLocale), which schedules the effect when the locale changed
ProviderSetLocale(newLocale) ==
  /\ provider.mounted
  /\ LET r == setLocaleEffect(newLocale) IN
       /\ locale' = r.locale
       /\ outcome' = r.outcome
       /\ provider' = IF r.outcome.threw THEN provider
                      ELSE [provider EXCEPT !.locale = newLocale,
                                            !.effect = @ \/ newLocale # provider.locale]
  /\ call' = [op |-> "provider.setLocale", newLocale |-> newLocale]
  /\ prior' = Before
  /\ UNCHANGED <<fallbackLocale, messages, meta, ready, cli>>

\* a component calls the t of the context
ProviderT(c) ==
  /\ provider.mounted
  /\ call' = [op |-> "provider.t", text |-> c.text, values |-> c.values,
              namespace |-> c.namespace]
  /\ outcome' = providerT(provider.impl, provider.components, provider.locale,
                          c.text, c.values, c.namespace)
  /\ prior' = Before
  /\ UNCHANGED <<engine, ready, provider, cli>>

NextProvider ==
  \/ \E impl \in Impls, props \in ProviderProps : Render(impl, props)
  \/ RunEffect
  \/ \E newLocale \in ProviderLocaleArgs : ProviderSetLocale(newLocale)
  \/ \E c \in ProviderCalls : ProviderT(c)

SpecProvider == Init /\ [][NextProvider]_vars

\* props that differ from ProviderProps in messages and fallbackLocale
ChangedProps ==
  {[locale |-> JStr(EN), messages |-> CoreMessages, meta |-> JUndefined,
    fallbackLocale |-> JStr(KO), components |-> EmptyObject]}

\* the mounted provider is rendered again with other props: useState keeps
\* the locale state, and the effect is scheduled when one of its dependencies
\* (lines 39-41) changed
Rerender(props) ==
  /\ provider.mounted
  /\ provider' = [provider EXCEPT
                    !.messages = props.messages, !.meta = props.meta,
                    !.fallbackLocale = props.fallbackLocale,
                    !.components = props.components,
                    !.effect = @ \/ <<props.messages, props.meta, props.fallbackLocale>> #
                                    <<provider.messages, provider.meta, provider.fallbackLocale>>]
  /\ call' = [op |-> "rerender", props |-> props]
  /\ outcome' = Returned(JUndefined)
  /\ prior' = Before
  /\ UNCHANGED <<engine, ready, cli>>

\* the provider with its parent changing its props
NextRender ==
  \/ NextProvider
  \/ \E props \in ProviderProps \cup ChangedProps : Rerender(props)

SpecRender == Init /\ [][NextRender]_vars

----------------------------------------------------------------------------
(* Watch mode (src/cli/extract.js, lines 406-447): chokidar reports add,   *)
(* change and unlink events, each one restarts the debounce timer, and the *)
(* timer's callback runs the extraction unless one is in progress.  The    *)
(* extraction is asynchronous: events and timers are served while it runs. *)

\* the events watched for one watcher
MaxEvents == 3

EventKinds == {"add", "change", "unlink"}

\* processChanges as it would be without the isProcessing test
processChanges_Unguarded(w) ==
  [w EXCEPT !.isProcessing = TRUE, !.running = @ + 1, !.startedAfter = w.events]

\* processChanges up to its await (lines 410-416): nothing when an extraction
\* is in progress, else the flag is set and extractMessages is called
processChanges(w) ==
  IF w.isProcessing THEN w
  ELSE [w EXCEPT !.isProcessing = TRUE, !.running = @ + 1, !.startedAfter = w.events]

\* debounce (lines 425-428): the timer is cleared and set again
debounce(w) == [w EXCEPT !.timer = "set", !.pending = TRUE]

\* watchFiles up to its await: the handlers are registered and the initial
\* extraction is started (lines 407-441)
WatchFiles ==
  /\ ~watcher.started
  /\ watcher' = processChanges([watcher EXCEPT !.started = TRUE])
  /\ call' = [op |-> "watchFiles"]
  /\ outcome' = Returned(JUndefined)
  /\ prior' = Before
  /\ UNCHANGED <<engine, ready, provider, project>>

\* the watcher reports an event (lines 434-436)
FileEvent(kind) ==
  /\ watcher.started /\ ~watcher.closed
  /\ watcher.events < MaxEvents
  /\ watcher' = debounce([watcher EXCEPT !.events = @ + 1])
  /\ call' = [op |-> "watch.event", kind |-> kind]
  /\ outcome' = Returned(JUndefined)
  /\ prior' = Before
  /\ UNCHANGED <<engine, ready, provider, project>>

\* the timer fires and calls processChanges
TimerFires ==
  /\ watcher.pending
  /\ watcher' = processChanges([watcher EXCEPT !.pending = FALSE])
  /\ call' = [op |-> "watch.timer", skipped |-> watcher.isProcessing]
  /\ outcome' = Returned(JUndefined)
  /\ prior' = Before
  /\ UNCHANGED <<engine, ready, provider, project>>

\* extractMessages settles (lines 417-423): resolved or rejected, the finally
\* block clears the flag; when it was the initial extraction, watchFiles
\* returns the function that stops the watcher
ExtractionEnds(settled) ==
  /\ watcher.running > 0
  /\ watcher' = [watcher EXCEPT !.running = @ - 1, !.isProcessing = FALSE,
                                !.returned = TRUE]
  /\ call' = [op |-> "watch.settled", settled |-> settled]
  /\ outcome' = Returned(JUndefined)
  /\ prior' = Before
  /\ UNCHANGED <<engine, ready, provider, project>>

\* the function watchFiles returned is called (lines 443-446)
StopWatching ==
  /\ watcher.returned /\ ~watcher.closed
  /\ watcher' = [watcher EXCEPT !.pending = FALSE, !.closed = TRUE]
  /\ call' = [op |-> "watch.stop"]
  /\ outcome' = Returned(JUndefined)
  /\ prior' = Before
  /\ UNCHANGED <<engine, ready, provider, project>>

NextWatch ==
  \/ WatchFiles
  \/ \E kind \in EventKinds : FileEvent(kind)
  \/ TimerFires
  \/ \E settled \in {"resolved", "rejected"} : ExtractionEnds(settled)
  \/ StopWatching

SpecWatch == Init /\ [][NextWatch]_vars

\* timers fire and extractions settle
SpecWatchLive ==
  /\ Init /\ [][NextWatch]_vars
  /\ WF_vars(TimerFires)
  /\ WF_vars(\E settled \in {"resolved", "rejected"} : ExtractionEnds(settled))

----------------------------------------------------------------------------
(* The extraction as a state machine: the developer edits the code, a      *)
(* translator edits a translation, resource files written elsewhere are    *)
(* checked out, and extractMessages runs (src/cli/extract.js, lines        *)
(* 131-237).                                                               *)

\* the sequences without repetition of at most two texts, in the order the
\* extraction finds them
TextLists ==
  {<< >>} \cup {<<a>> : a \in Texts} \cup
  {pair \in Texts \X Texts : pair[1] # pair[2]}

\* allNamespaceMessages (lines 141-153): the texts found per namespace
CodeVersions ==
  {[ns \in Namespaces |-> IF ns = "common" THEN common ELSE cart] :
     common \in TextLists, cart \in {<< >>, <<"Hello">>}}

\* resource files an earlier version of the tool wrote for English alone,
\* with a hash of its own for 'Hello'
LEGACY_HASH == "0ld0ld00"
LegacyFiles ==
  [NoFiles EXCEPT !["en"]["common"] =
     [meta |-> ("Hello" :> LEGACY_HASH), messages |-> (LEGACY_HASH :> "Hello")]]

CheckedOutFiles == {NoFiles, LegacyFiles}

Translations == {"Annyeong"}

\* the developer adds and removes t() calls
EditCode(code) ==
  /\ code # project.code
  /\ project' = [project EXCEPT !.code = code]
  /\ call' = [op |-> "edit", code |-> code]
  /\ outcome' = Returned(JUndefined)
  /\ prior' = Before
  /\ UNCHANGED <<engine, ready, provider, watcher>>

\* the resource files are replaced by files from elsewhere
CheckOut(files) ==
  /\ files # project.files
  /\ project' = [project EXCEPT !.files = files]
  /\ call' = [op |-> "checkout"]
  /\ outcome' = Returned(JUndefined)
  /\ prior' = Before
  /\ UNCHANGED <<engine, ready, provider, watcher>>

\* a translator writes the translation of a message of a locale other than
\* the source locale
EditTranslation(loc, ns, hash, translation) ==
  /\ loc # ExtractConfig.sourceLocale
  /\ hash \in DOMAIN project.files[loc][ns].messages
  /\ project.files[loc][ns].messages[hash] # translation
  /\ project' = [project EXCEPT !.files[loc][ns].messages[hash] = translation]
  /\ call' = [op |-> "translate", locale |-> loc, namespace |-> ns, hash |-> hash]
  /\ outcome' = Returned(JUndefined)
  /\ prior' = Before
  /\ UNCHANGED <<engine, ready, provider, watcher>>

\* the sum of f over keys
RECURSIVE Sum(_, _)
Sum(f, keys) ==
  IF keys = {} THEN 0
  ELSE LET k == CHOOSE x \in keys : TRUE IN f[k] + Sum(f, keys \ {k})

\* extractMessages(config): the files of every locale and namespace are
\* written; it returns the number of texts found (once per locale) and the
\* number of new hashes
Extract ==
  LET written == extractMessages(ExtractConfig, project.digest, project.code, project.files)
      found == {ns \in Namespaces : project.code[ns] # << >>}
      pairs == ConfigLocales \X Namespaces
  IN /\ project' = [project EXCEPT !.files =
                      [loc \in ConfigLocales |-> [ns \in Namespaces |->
                         [meta |-> written[loc][ns].meta,
                          messages |-> written[loc][ns].messages]]]]
     /\ call' = [op |-> "extract", code |-> project.code, before |-> project.files,
                 new |-> Sum([p \in pairs |-> written[p[1]][p[2]].new], pairs),
                 total |-> Sum([p \in pairs |->
                                 IF p[2] \in found THEN Len(project.code[p[2]]) ELSE 0], pairs)]
     /\ outcome' = Returned(JUndefined)
     /\ prior' = Before
     /\ UNCHANGED <<engine, ready, provider, watcher>>

NextExtract ==
  \/ \E code \in CodeVersions : EditCode(code)
  \/ \E files \in CheckedOutFiles : CheckOut(files)
  \/ \E loc \in ConfigLocales, ns \in Namespaces, hash \in Hashes \cup {LEGACY_HASH},
        translation \in Translations : EditTranslation(loc, ns, hash, translation)
  \/ Extract

\* sha256 is any of the hash functions
InitExtract == Loaded /\ \E digest \in Digests : project = NewProject(digest)

SpecExtract == InitExtract /\ [][NextExtract]_vars

----------------------------------------------------------------------------
(* What the claims speak of, for the t call the state records *)

\* the namespace the recorded t call used
CalledNamespace ==
  IF call.namespace.ty = "undefined" THEN <<"common">> ELSE call.namespace.s

\* Meta[l][ns][lookup]
MetaEntry(l) == Lookup(meta, l, CalledNamespace, call.text.s)

\* Messages[l][ns][lookup]
DirectEntry(l) == Lookup(messages, l, CalledNamespace, call.text.s)

\* Messages[l][ns][h] for h = Meta[l][ns][lookup]
HashEntry(l) ==
  IF MetaEntry(l).ty = "string"
    THEN Lookup(messages, l, CalledNamespace, MetaEntry(l).s)
    ELSE JUndefined

\* the entry of locale l: the hash-indirected one when l has a meta entry for
\* the lookup, its direct key otherwise
EntryOf(l) == IF MetaEntry(l).ty = "string" THEN HashEntry(l) ELSE DirectEntry(l)

NonEmptyString(x) == x.ty = "string" /\ x.s # << >>
Absent(x) == x.ty = "undefined"

\* what t returns when the template it formats is template
Formatted(template) == formatTemplate(template, call.values)

HasFallback == fallbackLocale.ty = "string"

----------------------------------------------------------------------------
\* C1: when the current locale's meta maps the lookup to a hash whose template
\* is a non-empty string, and the lookup is also a direct key with a different
\* template, t formats the template stored under the hash.
C1_HashPrecedence ==
  (/\ call.op = "t"
   /\ NonEmptyString(HashEntry(locale.s))
   /\ ~Absent(DirectEntry(locale.s))
   /\ DirectEntry(locale.s) # HashEntry(locale.s))
  => outcome = Formatted(HashEntry(locale.s))

C1_Witness ==
  /\ call.op = "t"
  /\ NonEmptyString(HashEntry(locale.s))
  /\ NonEmptyString(DirectEntry(locale.s))
  /\ DirectEntry(locale.s) # HashEntry(locale.s)
  /\ outcome = Returned(HashEntry(locale.s))
  /\ outcome # Returned(DirectEntry(locale.s))

\* C2 as stated: when the current locale's meta entry exists but no template is
\* stored under its hash, and the lookup is a direct key of the current
\* locale, t resolves to that direct-key template.
C2_DirectKeyAfterDanglingHash ==
  (/\ call.op = "t"
   /\ MetaEntry(locale.s).ty = "string"
   /\ Absent(HashEntry(locale.s))
   /\ NonEmptyString(DirectEntry(locale.s)))
  => outcome = Formatted(DirectEntry(locale.s))

\* the template t goes on to when the current locale yields none
BeyondCurrent ==
  IF HasFallback /\ NonEmptyString(EntryOf(fallbackLocale.s))
    THEN EntryOf(fallbackLocale.s)
    ELSE call.text

\* C2 as amended: in that case the direct key of the current locale is not
\* consulted; t resolves to the fallback locale's entry when a fallback is
\* configured and has a non-empty one, and to the lookup itself otherwise.
C2_DanglingHashSkipsDirectKey ==
  (/\ call.op = "t"
   /\ MetaEntry(locale.s).ty = "string"
   /\ Absent(HashEntry(locale.s))
   /\ NonEmptyString(DirectEntry(locale.s)))
  => outcome = Formatted(BeyondCurrent)

C2_Witness ==
  /\ call.op = "t"
  /\ MetaEntry(locale.s).ty = "string"
  /\ Absent(HashEntry(locale.s))
  /\ NonEmptyString(DirectEntry(locale.s))
  /\ ~HasFallback
  /\ outcome = Returned(call.text)
  /\ outcome # Returned(DirectEntry(locale.s))

\* the non-empty templates locale l stores for the lookup by either route
AnyEntries(l) == {x \in {HashEntry(l), DirectEntry(l)} : NonEmptyString(x)}

TotalMiss ==
  /\ Absent(MetaEntry(locale.s)) /\ Absent(DirectEntry(locale.s))
  /\ HasFallback =>
       (Absent(MetaEntry(fallbackLocale.s)) /\ Absent(DirectEntry(fallbackLocale.s)))

\* the ICU evaluator accepts the lookup itself when no values are passed
LookupFormatsWithoutValues ==
  isICUMessage(call.text) /\ IntlMessageFormat(call.text.s, locale.s, JUndefined).ok

NotALocaleOf(store, x) ==
  x.ty # "string" \/ x.s = << >> \/ x.s \notin DOMAIN store.o

\* C5: a setLocale call with a locale that is absent from the messages, or
\* that is not a non-empty string, throws an I18nConfigError and leaves the
\* locale, the fallback locale, the messages and the meta as they were; t
\* reads nothing but these four, so every t call returns what it returned
\* before.  Violated: setLocale('constructor') finds the member messages
\* inherits from Object.prototype, does not throw and changes the locale.
C5_SetLocaleRejects ==
  [][(call'.op = "setLocale" /\ NotALocaleOf(messages, call'.newLocale)) =>
       /\ outcome'.threw
       /\ outcome'.error = "I18nConfigError"
       /\ getLocale' = getLocale
       /\ engine' = engine]_vars

C5_Witness ==
  /\ call.op = "setLocale"
  /\ ready
  /\ call.newLocale = JStr(FR)
  /\ outcome.threw
  /\ getLocale = prior.locale

\* C6: once an init has succeeded, the messages have an entry for the
\* current locale in every state.  Violated: init and setLocale accept the
\* locale 'constructor', for which the messages have no entry of their own.
C6_CurrentLocaleInStore ==
  ready => (getLocale.ty = "string" /\ getLocale.s \in DOMAIN messages.o)

C6_Witness ==
  /\ ready
  /\ call.op = "setLocale"
  /\ ~outcome.threw
  /\ getLocale # prior.locale
  /\ getLocale.s \in DOMAIN messages.o

\* the configurations C7 names
ConfigMissing(config) == config.ty \in {"undefined", "null"}
ConfigLocaleBad(config) ==
  config.ty = "object" /\
  (Get(config, "locale").ty # "string" \/ Get(config, "locale").s = << >>)
ConfigMessagesBad(config) ==
  config.ty = "object" /\ Get(config, "messages").ty # "object"
ConfigEntryMissing(config) ==
  /\ config.ty = "object"
  /\ ~ConfigLocaleBad(config)
  /\ ~ConfigMessagesBad(config)
  /\ Get(config, "locale").s \notin DOMAIN Get(config, "messages").o
Refused(config) ==
  \/ ConfigMissing(config)
  \/ ConfigLocaleBad(config)
  \/ ConfigMessagesBad(config)
  \/ ConfigEntryMissing(config)

\* C7: init throws an I18nConfigError when the config is missing, when its
\* locale is not a non-empty string, when its messages are not an object or
\* have no entry for its locale; the locale, the fallback locale, the
\* messages and the meta then stay as they were, and with them (t reads
\* nothing else) what every t call returns.  Violated: init does not throw
\* for the locale 'constructor', which config.messages only inherits.
C7_InitRejects ==
  [][(call'.op = "init" /\ Refused(call'.config)) =>
       /\ outcome'.threw
       /\ outcome'.error = "I18nConfigError"
       /\ engine' = engine]_vars

C7_Witness ==
  /\ call.op = "init"
  /\ ready
  /\ ConfigEntryMissing(call.config)
  /\ outcome.threw
  /\ getLocale = prior.locale
  /\ messages # EmptyObject

\* C8: after a successful init(c) the state is exactly c.locale, c.messages,
\* c.meta or the empty meta, c.fallbackLocale or none, whatever the state was
\* before the call.
C8_InitReplacesState ==
  (call.op = "init" /\ ~outcome.threw) =>
    /\ locale = Get(call.config, "locale")
    /\ messages = Get(call.config, "messages")
    /\ meta = (IF "meta" \in DOMAIN call.config.o THEN call.config.o["meta"] ELSE EmptyObject)
    /\ fallbackLocale =
         (IF "fallbackLocale" \in DOMAIN call.config.o /\
             NonEmptyString(call.config.o["fallbackLocale"])
            THEN call.config.o["fallbackLocale"] ELSE JNull)

C8_Witness ==
  /\ call.op = "init"
  /\ ~outcome.threw
  /\ prior.hasMeta /\ prior.hasFallback
  /\ "meta" \notin DOMAIN call.config.o
  /\ "fallbackLocale" \notin DOMAIN call.config.o
  /\ meta = EmptyObject
  /\ fallbackLocale = JNull

\* C9: a step that is not an init call leaves the fallback locale, the
\* messages and the meta as they are, a t call leaves the locale too, and
\* after a setLocale call the fallback locale is still the configured one.
C9_OnlyInitChangesStores ==
  [][/\ call'.op # "init" => UNCHANGED <<fallbackLocale, messages, meta>>
     /\ call'.op \in {"t", "getLocale"} => UNCHANGED locale]_vars

C9_Witness ==
  /\ call.op = "setLocale"
  /\ ~outcome.threw
  /\ getLocale # prior.locale
  /\ prior.hasFallback
  /\ HasFallback

\* the template the recorded t call resolved
ResolvedTemplate ==
  translatedTemplate(call.text, JStr(CalledNamespace))

\* the ICU evaluator throws on the resolved template with the call's values
EvaluationFails ==
  ~IntlMessageFormat(ResolvedTemplate.s, locale.s, call.values).ok

\* C10: when the resolved template is detected as ICU and the ICU evaluator
\* throws on it, t throws nothing and returns the resolved template as it
\* is, with no placeholder of it substituted.
C10_ICUFailureReturnsTemplate ==
  (call.op = "t" /\ isICUMessage(ResolvedTemplate) /\ EvaluationFails) =>
    outcome = Returned(ResolvedTemplate)

\* a malformed template with a {name} placeholder, called with a name
C10_Witness ==
  /\ call.op = "t"
  /\ isICUMessage(ResolvedTemplate)
  /\ EvaluationFails
  /\ call.values.ty = "object"
  /\ <<"name">> \in DOMAIN call.values.o
  /\ IndexOf(ResolvedTemplate.s, <<"{", "name", "}">>) > 0
  /\ outcome = Returned(ResolvedTemplate)

----------------------------------------------------------------------------
\* s holds, from some position on, an opening brace, blanks, an identifier,
\* blanks, a comma, blanks and a word that begins with an ICU keyword
HasICUConstruct(s) ==
  \E i \in 1..Len(s) : \E a \in (i + 1)..Len(s) :
    \E c \in (a + 1)..Len(s) : \E d \in (c + 1)..Len(s) :
      /\ s[i] = "{" /\ IsWord(s[a]) /\ s[c] = "," /\ BeginsWithICUType(s[d])
      /\ \A j \in ((i + 1)..(a - 1)) \cup ((a + 1)..(c - 1)) \cup ((c + 1)..(d - 1)) :
           s[j] = " "

\* C11: t hands the resolved template to the ICU evaluator exactly when the
\* template holds an opening brace, an identifier, a comma and an ICU keyword
\* (blanks allowed around the identifier and the comma): such a template
\* comes back as the evaluator leaves it, every other one, plain {variable}
\* placeholders included, only goes through the variable substitution.
C11_ICUDetectionDecidesPath ==
  call.op = "t" =>
    /\ isICUMessage(ResolvedTemplate) = HasICUConstruct(ResolvedTemplate.s)
    /\ outcome = IF HasICUConstruct(ResolvedTemplate.s)
                   THEN formatICU(ResolvedTemplate, call.values)
                   ELSE Returned(substitute(ResolvedTemplate, call.values))

\* a template with a placeholder twice and no keyword: the evaluator would have
\* filled both, the substitution fills the first
C11_Witness ==
  /\ call.op = "t"
  /\ ResolvedTemplate = JStr(Twice)
  /\ ~HasICUConstruct(ResolvedTemplate.s)
  /\ IntlMessageFormat(Twice, locale.s, call.values).ok
  /\ outcome = Returned(substitute(ResolvedTemplate, call.values))
  /\ outcome # Returned(JStr(IntlMessageFormat(Twice, locale.s, call.values).out))

----------------------------------------------------------------------------
\* s with every occurrence of pat replaced by rep, left to right
RECURSIVE ReplaceAll(_, _, _)
ReplaceAll(s, pat, rep) ==
  LET i == IndexOf(s, pat)
  IN IF i = 0 THEN s
     ELSE SubSeq(s, 1, i - 1) \o rep \o ReplaceAll(SubSeq(s, i + Len(pat), Len(s)), pat, rep)

\* the template with, key after key, every {key} replaced by the string form
\* of a string or number value
RECURSIVE EveryOccurrenceReplaced(_, _, _)
EveryOccurrenceReplaced(template, values, keys) ==
  IF keys = << >> THEN template
  ELSE LET key == Head(keys)
           value == values.o[key]
           next == IF Typeof(value) \in {"string", "number"}
                     THEN ReplaceAll(template, <<"{">> \o key \o <<"}">>, StringOf(value))
                     ELSE template
       IN EveryOccurrenceReplaced(next, values, Tail(keys))

\* C12: for a template that is not ICU and values with string or number
\* entries, t returns the template with every occurrence of each {key}
\* replaced, repeated occurrences of one key included.  Violated: replace()
\* with a string pattern replaces the first occurrence only.
C12_EveryOccurrenceIsReplaced ==
  (call.op = "t" /\ ~isICUMessage(ResolvedTemplate) /\ Truthy(call.values)) =>
    outcome = Returned(JStr(EveryOccurrenceReplaced(ResolvedTemplate.s, call.values,
                                                     ObjectKeys(call.values))))

\* '{name} and {name}' with a name comes back with the second {name} in it
C12_Witness ==
  /\ call.op = "t"
  /\ ResolvedTemplate = JStr(Twice)
  /\ call.values = Name(<<"John">>)
  /\ outcome = Returned(JStr(<<"John", " ", "and", " ", "{", "name", "}">>))

----------------------------------------------------------------------------
(* The provider's translate *)

ProviderTCalled == call.op = "provider.t"

\* the string the core translate returned to the provider for the last call
CoreString ==
  t(call.text, coreValues(provider.impl, call.values), call.namespace).value.s

\* the spans <name>content</name> of s, left to right
RECURSIVE Spans(_, _)
Spans(s, i) ==
  IF i > Len(s) THEN << >>
  ELSE IF TagAt(s, i).ok THEN <<TagAt(s, i)>> \o Spans(s, TagAt(s, i).end)
  ELSE Spans(s, i + 1)

\* values && values[name] and components[name], as JavaScript looks them up
InlineFound(m) == IF Truthy(call.values) THEN Index(call.values, m.tagName) ELSE call.values
GlobalFound(m) == Index(provider.components, m.tagName)

\* the span m has a handler: values or the registry has a function under its
\* tag name
SpanHasHandler(m) ==
  Typeof(InlineFound(m)) = "function" \/ Typeof(GlobalFound(m)) = "function"

\* the parts of the result: the result itself when it is a string
ResultParts ==
  IF outcome.value.ty = "array" THEN outcome.value.items ELSE <<outcome.value>>

\* the content a handler was first given to make the node x
RECURSIVE ContentGiven(_)
ContentGiven(x) ==
  IF "element" \in DOMAIN x THEN ContentGiven(x.children)
  ELSE IF "by" \in DOMAIN x THEN ContentGiven(x.args[1])
  ELSE x

\* values has no entry under the name between the braces of content
MissingVariable(content) ==
  /\ VarMatch(content)
  /\ ~(Typeof(call.values) = "object" /\ <<content[2]>> \in DOMAIN call.values.o)

\* C13: the provider's translate throws nothing; a span without a handler is
\* in the result as it is written; and a span with a handler whose whole
\* content is a placeholder {k} without an entry in values has its handler
\* given the literal {k}.  Violated: with values given, the handler is given
\* values[k], which is undefined (react.jsx), or String(undefined) (App.tsx);
\* and a tag named valueOf finds Object.prototype.valueOf as its handler,
\* which throws when it is called without a receiver.
C13_InterpolatorGuarantee ==
  ProviderTCalled =>
    /\ ~outcome.threw
    /\ \A i \in 1..Len(Spans(CoreString, 1)) :
         LET m == Spans(CoreString, 1)[i] IN
         /\ ~SpanHasHandler(m) =>
              \E p \in 1..Len(ResultParts) :
                /\ Typeof(ResultParts[p]) = "string"
                /\ IndexOf(ResultParts[p].s, m.fullMatch) # 0
         /\ (SpanHasHandler(m) /\ MissingVariable(m.content)) =>
              \E p \in 1..Len(ResultParts) :
                /\ Typeof(ResultParts[p]) # "string"
                /\ ContentGiven(ResultParts[p]) = JStr(m.content)

\* 'Hello <bold>{name}</bold>' with a handler for bold and no name: the
\* handler is given something else than '{name}'
C13_Witness ==
  /\ ProviderTCalled
  /\ CoreString = HelloBold
  /\ call.values = BoldValues
  /\ ~outcome.threw
  /\ outcome.value.ty = "array"
  /\ ContentGiven(outcome.value.items[2]) \in {JUndefined, JStr(<<"undefined">>)}

----------------------------------------------------------------------------
\* text lies between span j of spans and the span before it (or the start)
TextBefore(spans, j) == spans[j].index > (IF j = 1 THEN 1 ELSE spans[j - 1].end)

\* the place among the parts of the part made for span i: one part for every
\* span and one for every text between spans, in the order of the template
PartIndex(spans, i) == i + Cardinality({j \in 1..i : TextBefore(spans, j)})

\* the functions that made the node x, the last one applied first
RECURSIVE HandlerChain(_)
HandlerChain(x) ==
  IF "element" \in DOMAIN x THEN HandlerChain(x.children)
  ELSE IF "by" \in DOMAIN x THEN <<x.by>> \o HandlerChain(x.args[1])
  ELSE << >>

\* C14: for every span <name>content</name> of the string the core
\* returned: when values[name] and components[name] are both functions, the
\* part is what the inline one made of what the global one made of the
\* content; when one of them is a function, the part is what it alone made;
\* when neither is, no handler is called and the part is the span as written.
C14_HandlerResolution ==
  ProviderTCalled =>
    LET spans == Spans(CoreString, 1) IN
    IF outcome.threw
      THEN \E i \in 1..Len(spans) :
             Typeof(InlineFound(spans[i])) = "function" \/ Typeof(GlobalFound(spans[i])) = "function"
      ELSE
        \A i \in 1..Len(spans) :
          LET m == spans[i]
              inline == Typeof(InlineFound(m)) = "function"
              global == Typeof(GlobalFound(m)) = "function"
              part == ResultParts[PartIndex(spans, i)]
          IN
          IF outcome.value.ty # "array"
            THEN ~inline /\ ~global /\ IndexOf(outcome.value.s, m.fullMatch) # 0
          ELSE IF inline /\ global
            THEN HandlerChain(part) = <<InlineFound(m).name, GlobalFound(m).name>>
          ELSE IF inline THEN HandlerChain(part) = <<InlineFound(m).name>>
          ELSE IF global THEN HandlerChain(part) = <<GlobalFound(m).name>>
          ELSE part = JStr(m.fullMatch)

\* '<bold>a</bold> and <link>b</link>' with inline handlers for both tags and
\* a registry handler for bold: bold's part is made by both, link's by one
C14_Witness ==
  /\ ProviderTCalled
  /\ CoreString = BoldAndLink
  /\ call.values = LinkBoldValues
  /\ provider.components = JObj(<<"bold">> :> Strong)
  /\ ~outcome.threw
  /\ HandlerChain(outcome.value.items[1]) = <<(<<"b">>), (<<"strong">>)>>
  /\ HandlerChain(outcome.value.items[3]) = <<(<<"a">>)>>

----------------------------------------------------------------------------
\* text follows the last span of spans in s
TextAfter(s, spans) == spans # << >> /\ spans[Len(spans)].end <= Len(s)

\* the text the part at place p stands for: the span as written for the part
\* of a span with a handler, the part itself otherwise
Restored(parts, spans, p) ==
  LET made == {i \in 1..Len(spans) : PartIndex(spans, i) = p /\ SpanHasHandler(spans[i])}
  IN IF made # {} THEN spans[CHOOSE i \in made : TRUE].fullMatch
     ELSE IF Typeof(parts[p]) = "string" THEN parts[p].s
     ELSE <<OBJECT_TEXT>>

RECURSIVE Concatenated(_, _, _)
Concatenated(parts, spans, p) ==
  IF p > Len(parts) THEN << >>
  ELSE Restored(parts, spans, p) \o Concatenated(parts, spans, p + 1)

\* C15: the provider's translate returns a sequence of parts exactly when a
\* span of the string the core returned has a handler, and a string
\* otherwise; the sequence has one part for every span and one for every
\* text between, before and after the spans, in the order of the template:
\* the parts, with the span as written in the place of every part a handler
\* made, concatenate to the string the core returned.
C15_ResultShape ==
  (ProviderTCalled /\ ~outcome.threw) =>
    LET spans == Spans(CoreString, 1)
        handled == \E i \in 1..Len(spans) : SpanHasHandler(spans[i])
    IN
    IF handled
      THEN /\ outcome.value.ty = "array"
           /\ Len(outcome.value.items) =
                Len(spans) + Cardinality({j \in 1..Len(spans) : TextBefore(spans, j)})
                           + (IF TextAfter(CoreString, spans) THEN 1 ELSE 0)
           /\ \A i \in 1..Len(spans) :
                SpanHasHandler(spans[i]) <=>
                  Typeof(outcome.value.items[PartIndex(spans, i)]) # "string"
           /\ Concatenated(outcome.value.items, spans, 1) = CoreString
      ELSE outcome.value.ty = "string"

\* '<bold>a</bold> and <link>b</link>' with a handler for link alone: three
\* parts, the bold span as written, the text between, and what link made
C15_Witness ==
  /\ ProviderTCalled
  /\ CoreString = BoldAndLink
  /\ call.values = LinkValues
  /\ provider.components = EmptyObject
  /\ ~outcome.threw
  /\ outcome.value.ty = "array"
  /\ Len(outcome.value.items) = 3
  /\ outcome.value.items[1] = JStr(SubSeq(BoldAndLink, 1, 8))
  /\ Typeof(outcome.value.items[3]) = "object"

----------------------------------------------------------------------------
\* the values the provider hands to the core translate for the last call
ValuesHandedToCore == coreValues(provider.impl, call.values)

\* C16: the values the provider hands to the core translate, and with it to
\* the ICU evaluator, have no entry that is a function, for every call.
\* Violated: src/src/react.jsx hands values on as it was given them (line
\* 51); src/test-app/App.tsx drops the functions first.
C16_CoreValuesHoldNoHandler ==
  (ProviderTCalled /\ Truthy(ValuesHandedToCore)) =>
    \A k \in DOMAIN ValuesHandedToCore.o : Typeof(ValuesHandedToCore.o[k]) # "function"

\* the plural template with <bold> in its arms, a count and a handler for
\* bold, under react.jsx: the evaluator calls the handler itself and the
\* core joins its node into the string
C16_Witness ==
  /\ ProviderTCalled
  /\ provider.impl = REACT
  /\ call.values = CountBoldValues
  /\ ValuesHandedToCore = CountBoldValues
  /\ CoreString = <<OBJECT_TEXT, " ", "item">>
  /\ outcome = Returned(JStr(<<OBJECT_TEXT, " ", "item">>))

----------------------------------------------------------------------------
\* the store value t resolved the lookup to: the fallback locale's entry when
\* the current locale's is falsy and a fallback is configured
ResolvedValue ==
  IF ~Truthy(EntryOf(locale.s)) /\ HasFallback
    THEN EntryOf(fallbackLocale.s)
    ELSE EntryOf(locale.s)

----------------------------------------------------------------------------
\* the namespaces locale l has in store, and the strings stored in l for the
\* lookup, directly or under its hash, in a namespace other than the one asked
NamespacesOf(store, l) ==
  IF store.ty = "object" /\ l \in DOMAIN store.o /\ store.o[l].ty = "object"
    THEN DOMAIN store.o[l].o ELSE {}

ElsewhereEntries(l) ==
  {v \in {Lookup(messages, l, ns, call.text.s) :
            ns \in NamespacesOf(messages, l) \ {CalledNamespace}} \cup
          {Lookup(messages, l, ns, Lookup(meta, l, ns, call.text.s).s) :
            ns \in {n \in NamespacesOf(messages, l) \ {CalledNamespace} :
                      Lookup(meta, l, n, call.text.s).ty = "string"}} :
     v.ty = "string"}

\* what t can resolve the lookup to from the namespace asked for alone
OwnNamespaceTemplates ==
  {call.text} \cup {v \in {EntryOf(locale.s)} : v.ty = "string"} \cup
  (IF HasFallback THEN {v \in {EntryOf(fallbackLocale.s)} : v.ty = "string"} ELSE {})

\* C18: t formats a template it found under the namespace asked for
\* ("common" when none is given) in the current or the fallback locale, or
\* the lookup itself; what is stored for the same lookup under another
\* namespace is never what it formats.
C18_NamespaceIsolation ==
  call.op = "t" =>
    /\ \E template \in OwnNamespaceTemplates : outcome = Formatted(template)
    /\ \A l \in DOMAIN messages.o : \A v \in ElsewhereEntries(l) :
         outcome = Formatted(v) => v \in OwnNamespaceTemplates
    /\ (call.namespace.ty = "undefined" /\ NonEmptyString(Lookup(messages, locale.s, COMMON, call.text.s))
          /\ Absent(Lookup(meta, locale.s, COMMON, call.text.s)))
         => outcome = Formatted(Lookup(messages, locale.s, COMMON, call.text.s))

\* 'add' is stored under cart alone and asked for without a namespace: the
\* lookup comes back, not 'Add to cart'
C18_Witness ==
  /\ call.op = "t"
  /\ call.text = JStr(<<"add">>)
  /\ call.namespace = JUndefined
  /\ JStr(<<"Add", " ", "to", " ", "cart">>) \in ElsewhereEntries(locale.s)
  /\ outcome = Returned(JStr(<<"add">>))

----------------------------------------------------------------------------
(* Plurals *)

\* the last call asked for the plural construct form with a count that is a
\* non-negative integer, in a locale that has plural rules
PluralAsked(form) ==
  /\ call.op = "t"
  /\ ResolvedTemplate = JStr(PluralTemplate(form.arms, form.offset))
  /\ Typeof(call.values) = "object" /\ DOMAIN call.values.o = {<<"count">>}
  /\ call.values.o[<<"count">>].ty = "number" /\ call.values.o[<<"count">>].n >= 0
  /\ locale.s \notin IllFormedLocales

AskedCount == call.values.o[<<"count">>].n

\* the texts of the arms of arms whose selector is sel
ArmTexts(arms, sel) == {arms[a].text : a \in {b \in 1..Len(arms) : arms[b].sel = sel}}

\* the plural category of k as the tests expect it: English has `one` for 1
\* and `other` for the rest, Korean has `other` alone; a number below zero
\* has the category of its absolute value
CardinalCategory(loc, k) ==
  IF loc = EN /\ (k = 1 \/ k = 0 - 1) THEN <<"one">> ELSE <<"other">>

\* the arm for count n: the exact arm =n, else the arm of the category of
\* n - offset, else `other`
ChosenArm(form, loc, n) ==
  LET exact == ArmTexts(form.arms, <<"=", ToString(n)>>)
      category == ArmTexts(form.arms, CardinalCategory(loc, n - form.offset))
  IN CHOOSE text \in (IF exact # {} THEN exact
                      ELSE IF category # {} THEN category
                      ELSE ArmTexts(form.arms, <<"other">>)) : TRUE

\* text with every `#` replaced by k
WithCount(text, k) == ReplaceAll(text, <<"#">>, NumStr(k))

\* C19: for a plural template without offset and a count n >= 0, t returns
\* the arm =n when there is one, also when a keyword arm fits n; else the arm
\* of n's plural category in the current locale; else the arm `other`; with
\* every `#` of the arm replaced by n.
C19_PluralArmSelection ==
  \A form \in {f \in PluralForms : f.offset = 0} :
    PluralAsked(form) =>
      outcome = Returned(JStr(WithCount(ChosenArm(form, locale.s, AskedCount), AskedCount)))

\* count 1 with the arms one {# item} =1 {exactly one}: the exact arm is chosen
C19_Witness ==
  /\ PluralAsked([arms |-> ExactlyArms, offset |-> 0])
  /\ locale.s = EN
  /\ AskedCount = 1
  /\ outcome = Returned(JStr(<<"exactly", " ", "one">>))

\* C20: for a plural template with offset:N and a count n >= 0, the arm =K is
\* chosen when K is n itself, not n - N; otherwise the arm is that of the
\* plural category of n - N; and every `#` of the arm is replaced by n - N.
C20_PluralOffset ==
  \A form \in {f \in PluralForms : f.offset > 0} :
    PluralAsked(form) =>
      outcome = Returned(JStr(WithCount(ChosenArm(form, locale.s, AskedCount),
                                        AskedCount - form.offset)))

\* 'attendees' with count 2 and offset 1: the arm `one`, and # prints 1
C20_Witness ==
  /\ PluralAsked([arms |-> AttendeesArms, offset |-> 1])
  /\ locale.s = EN
  /\ AskedCount = 2
  /\ outcome = Returned(JStr(<<"You", " ", "and", " ", "1", " ", "other">>))

----------------------------------------------------------------------------
(* The locale of the evaluation *)

\* the plural category of k >= 0 under the rules of loc (CLDR): English `one`
\* for 1; Russian `one` for 1, 21, 31, ..., `few` for 2-4, 22-24, ..., `many`
\* for the rest (0, 5-20, 25-30, ...)
CategoryUnder(loc, k) ==
  IF loc = EN THEN (IF k = 1 THEN <<"one">> ELSE <<"other">>)
  ELSE IF loc = RU
    THEN (IF k \in {1 + 10 * d : d \in 0..(k \div 10)} \ {11 + 100 * d : d \in 0..(k \div 100)}
            THEN <<"one">>
          ELSE IF \E u \in 2..4 : k \in {u + 10 * d : d \in 0..(k \div 10)} \
                                              {10 + u + 100 * d : d \in 0..(k \div 100)}
            THEN <<"few">>
          ELSE <<"many">>)
  ELSE <<"other">>

\* the template of the last t call was found in the fallback locale
FromFallback ==
  /\ ~Truthy(EntryOf(locale.s))
  /\ HasFallback
  /\ ResolvedTemplate = EntryOf(fallbackLocale.s)

\* C21: the plural arm t returns is that of the count's category under the
\* rules of the current locale at the time of the call (Russian: 1, 2, 5 take
\* one, few, many; English: one, other, other), whatever init and setLocale
\* calls came before, and also for a template found in the fallback locale.
C21_EvaluationFollowsCurrentLocale ==
  \A form \in LocaleForms :
    PluralAsked(form) =>
      \E text \in ArmTexts(form.arms, CategoryUnder(locale.s, AskedCount)) :
        outcome = Returned(JStr(WithCount(text, AskedCount)))

\* the current locale is Russian, the template comes from the English
\* fallback, and count 2 takes the arm `few`
C21_Witness ==
  /\ PluralAsked([arms |-> EnItemsArms, offset |-> 0])
  /\ locale.s = RU /\ FromFallback /\ fallbackLocale.s = EN
  /\ AskedCount = 2
  /\ outcome = Returned(JStr(<<"2", " ", "few", " ", "items">>))

----------------------------------------------------------------------------
(* The empty template *)

\* C22: for a non-empty lookup, when the current locale's entry is the empty
\* string t formats the fallback locale's entry when a fallback is set and
\* has a non-empty one, and the lookup itself otherwise; and the template t
\* formats is never the empty string.
C22_EmptyTemplateIsAbsent ==
  (call.op = "t" /\ call.text.s # << >>) =>
    /\ ResolvedTemplate # JStr(<< >>)
    /\ EntryOf(locale.s) = JStr(<< >>) =>
         /\ ResolvedTemplate = BeyondCurrent
         /\ outcome = Formatted(BeyondCurrent)

\* the extractor's '' for a new message in Korean, and the English fallback
\* answers
C22_Witness ==
  /\ call.op = "t" /\ call.text.s = Key
  /\ MetaEntry(locale.s) = JStr(Hash)
  /\ EntryOf(locale.s) = JStr(<< >>)
  /\ HasFallback /\ fallbackLocale.s = EN
  /\ outcome = Returned(JStr(MetaValue(EN)))

----------------------------------------------------------------------------
(* Watch mode *)

\* C23: every event the watcher has seen is eventually followed by an
\* extraction that starts after it, unless the watcher is stopped first.
C23_EveryEventIsExtracted ==
  \A k \in 1..MaxEvents :
    (watcher.events >= k) ~> (watcher.startedAfter >= k \/ watcher.closed)

\* the timer of an event fired while an extraction was in progress, and no
\* extraction has started since the event
C23_Witness ==
  /\ call.op = "watch.timer" /\ call.skipped
  /\ ~watcher.pending /\ ~watcher.closed
  /\ watcher.startedAfter < watcher.events

\* C24: at most one extractMessages is in progress at any time, the flag is
\* set exactly while one is, and it is clear after a run has settled, resolved
\* or rejected.
C24_OneExtractionAtATime ==
  /\ watcher.running <= 1
  /\ watcher.isProcessing <=> (watcher.running = 1)
  /\ call.op = "watch.settled" => ~watcher.isProcessing /\ watcher.running = 0

\* an extraction was rejected while a timer is pending: the flag is clear
C24_Witness ==
  /\ call.op = "watch.settled" /\ call.settled = "rejected"
  /\ watcher.pending /\ watcher.events > 0
  /\ ~watcher.isProcessing

----------------------------------------------------------------------------
(* The provider and the core state *)

\* the configuration the provider's effect hands to init
ProviderConfig ==
  JObj(("locale" :> provider.locale) @@ ("messages" :> provider.messages) @@
       ("meta" :> provider.meta) @@ ("fallbackLocale" :> provider.fallbackLocale))

\* C25: whenever the t of a mounted provider is called, the core state is the
\* one init builds from the provider's locale state and its messages, meta
\* and fallbackLocale props (when init accepts them), also during the first
\* render and the render after a change of props.
C25_CoreStateIsTheProviders ==
  (call.op = "provider.t" /\ ~initEffect(ProviderConfig).outcome.threw) =>
    LET built == initEffect(ProviderConfig)
    IN engine = <<built.locale, built.fallbackLocale, built.messages, built.meta>>

\* t is called during the first render of the first provider: the effect has
\* not run, the core is as the module loaded it, and the message the provider
\* was given for 'click' is not found
C25_Witness ==
  /\ call.op = "provider.t" /\ call.text = JStr(<<"click">>) /\ call.values = JUndefined
  /\ provider.effect /\ ~ready
  /\ provider.locale = JStr(EN) /\ provider.messages = ProviderMessages
  /\ messages = EmptyObject /\ locale = JStr(KO)
  /\ outcome = Returned(JStr(<<"click">>))

----------------------------------------------------------------------------
(* The provider's t without handlers *)

\* values without its entries that are functions
NonFunctionValues(values) ==
  IF Typeof(values) # "object" \/ values = JNull THEN values
  ELSE LET kept == SelectSeq(values.keys, LAMBDA k : values.o[k].ty # "function")
       IN Vals(kept, [k \in {kept[i] : i \in 1..Len(kept)} |-> values.o[k]])

\* what the core t returns for the arguments of the last call, the functions
\* left out of values
CoreResult == t(call.text, NonFunctionValues(call.values), call.namespace)

NoSpanHasHandler ==
  \A i \in 1..Len(Spans(CoreString, 1)) : ~SpanHasHandler(Spans(CoreString, 1)[i])

\* C26: when no tag span of the translated string has a handler, the
\* provider's t returns the string the core t returns for the same text,
\* namespace and non-function values.
C26_ProviderReturnsCoreString ==
  (ProviderTCalled /\ NoSpanHasHandler) => outcome = CoreResult

\* the core returns 'Hello {title}' for a name that reads {title}, and the
\* provider's own pass replaces it again
C26_Witness ==
  /\ ProviderTCalled /\ NoSpanHasHandler
  /\ call.values = TitleNameValues
  /\ CoreResult = Returned(JStr(<<"Hello", " ", "{", "title", "}">>))
  /\ outcome = Returned(JStr(<<"Hello", " ", "Dr">>))

----------------------------------------------------------------------------
(* The extractor *)

ExtractRan == call.op = "extract"

\* the namespaces in which the last extraction found a text, and the texts
ExtractedNamespaces == {ns \in Namespaces : call.code[ns] # << >>}
FoundTexts(ns) == {call.code[ns][i] : i \in 1..Len(call.code[ns])}

\* the files of a locale and namespace before and after the last extraction
ExistingFile(loc, ns) == call.before[loc][ns]
WrittenFile(loc, ns) == project.files[loc][ns]

\* the translation of a new message: the text in the source locale, ''
\* elsewhere
NewTranslation(loc, text) == IF loc = ExtractConfig.sourceLocale THEN text ELSE ""

\* C27: after extractMessages, in every locale and namespace, a text found
\* in the code that had a meta entry has the same hash, and the translation
\* the messages file had under that hash is written back; a text without a
\* meta entry that is given a hash has, under that hash, itself as
\* translation in the source locale and '' in the other locales.
C27_HashRetention ==
  ExtractRan =>
    \A loc \in ConfigLocales : \A ns \in ExtractedNamespaces : \A text \in FoundTexts(ns) :
      LET existing == ExistingFile(loc, ns)
          written == WrittenFile(loc, ns)
      IN IF text \in DOMAIN existing.meta
           THEN /\ text \in DOMAIN written.meta
                /\ written.meta[text] = existing.meta[text]
                /\ existing.meta[text] \in DOMAIN existing.messages =>
                     /\ existing.meta[text] \in DOMAIN written.messages
                     /\ written.messages[existing.meta[text]] =
                          existing.messages[existing.meta[text]]
           ELSE text \in DOMAIN written.meta =>
                  /\ written.meta[text] \in DOMAIN written.messages
                  /\ written.messages[written.meta[text]] = NewTranslation(loc, text)

\* 'Hello' keeps its hash and its Korean translation, and 'Bye', new, gets a
\* hash of its own with '' as its Korean translation
C27_Witness ==
  /\ ExtractRan /\ call.code["common"] = <<"Hello", "Bye">>
  /\ ExistingFile("ko", "common").meta = ("Hello" :> "a1b2c3d4")
  /\ ExistingFile("ko", "common").messages = ("a1b2c3d4" :> "Annyeong")
  /\ WrittenFile("ko", "common").meta = ("Hello" :> "a1b2c3d4") @@ ("Bye" :> "e5f6a7b8")
  /\ WrittenFile("ko", "common").messages =
       ("a1b2c3d4" :> "Annyeong") @@ ("e5f6a7b8" :> "")

\* a meta file maps distinct texts to distinct hashes
Injective(metaFile) ==
  \A a \in DOMAIN metaFile : \A b \in DOMAIN metaFile :
    metaFile[a] = metaFile[b] => a = b

\* C28: when the meta file of a locale and namespace mapped distinct texts
\* to distinct hashes before extractMessages, the meta file written maps
\* distinct texts to distinct hashes, whatever the hash function gives.
C28_HashUniqueness ==
  ExtractRan =>
    \A loc \in ConfigLocales : \A ns \in ExtractedNamespaces :
      Injective(ExistingFile(loc, ns).meta) => Injective(WrittenFile(loc, ns).meta)

\* the first hash of 'Bye' is the hash 'Hello' has, and 'Bye' is given the
\* hash of 'Bye0'
C28_Witness ==
  /\ ExtractRan /\ call.code["common"] = <<"Hello", "Bye">>
  /\ ExistingFile("en", "common").meta = ("Hello" :> "a1b2c3d4")
  /\ project.digest["Bye"] = [first |-> "a1b2c3d4", retry |-> "e5f6a7b8"]
  /\ WrittenFile("en", "common").meta = ("Hello" :> "a1b2c3d4") @@ ("Bye" :> "e5f6a7b8")

\* C29: after extractMessages, for every locale and every namespace in which
\* a text was found, the keys of the meta file are the texts found, and the
\* keys of the messages file are the hashes the meta file maps to.
C29_MetaMessagesConsistency ==
  ExtractRan =>
    \A loc \in ConfigLocales : \A ns \in ExtractedNamespaces :
      /\ DOMAIN WrittenFile(loc, ns).meta = FoundTexts(ns)
      /\ DOMAIN WrittenFile(loc, ns).messages = ObjectValues(WrittenFile(loc, ns).meta)

\* t('constructor') is found in the code: the meta file written has no entry
\* for it, and the messages file has an entry under the text of a function
C29_Witness ==
  /\ ExtractRan /\ call.code["common"] = <<"Hello", "constructor">>
  /\ DOMAIN WrittenFile("en", "common").meta = {"Hello"}
  /\ NATIVE_FUNCTION \in DOMAIN WrittenFile("en", "common").messages
  /\ WrittenFile("en", "common").messages[NATIVE_FUNCTION] = "constructor"

\* C30: after extractMessages, for every namespace in which a text was found
\* and every such text, the meta files of all locales map it to one hash.
C30_CrossLocaleAgreement ==
  ExtractRan =>
    \A ns \in ExtractedNamespaces : \A text \in FoundTexts(ns) :
      \A a \in ConfigLocales : \A b \in ConfigLocales :
        /\ text \in DOMAIN WrittenFile(a, ns).meta <=> text \in DOMAIN WrittenFile(b, ns).meta
        /\ text \in DOMAIN WrittenFile(a, ns).meta /\ text \in DOMAIN WrittenFile(b, ns).meta =>
             WrittenFile(a, ns).meta[text] = WrittenFile(b, ns).meta[text]

\* English had a meta file with a hash of an earlier version, Korean had
\* none: 'Hello' keeps the old hash in English and gets sha256's in Korean
C30_Witness ==
  /\ ExtractRan /\ call.before = LegacyFiles
  /\ "Hello" \in FoundTexts("common")
  /\ WrittenFile("en", "common").meta["Hello"] = LEGACY_HASH
  /\ WrittenFile("ko", "common").meta["Hello"] = project.digest["Hello"].first

====
